---- MODULE Spec2Model ----
(***************************************************************************)
(* go-music-shop: the album catalogue.                                     *)
(*                                                                         *)
(*   AlbumService -> CachedAlbumRepository -> PostgresAlbumRepository      *)
(*                          |                                              *)
(*                          +--> RedisClient                               *)
(*                                                                         *)
(* Every request handler is one action.  The goroutines a handler starts   *)
(* with `go func() {...}()` are pending tasks: sequences of cache calls    *)
(* that RunTask executes one call at a time, in any interleaving.          *)
(*                                                                         *)
(* Units.  Prices are in 1/1000 of the currency unit (39990 is 39.99).     *)
(* Clock readings are nanoseconds.  Cache expiries are counted in units of *)
(* 30 seconds, the shortest expiry the decorator uses.                     *)
(***************************************************************************)
EXTENDS Integers, Sequences, FiniteSets, TLC

\* ------------------------------------------------------------------ bounds

\* Most rows the albums table holds (Create is not offered beyond it).
MaxAlbums == 2

\* Last clock reading of a run (nanoseconds); the clock starts at 1499.
MaxClock == 1504

\* Most background goroutines pending at once.
MaxTasks == 2

\* Most requests of a run, and of a run that mixes all operations.
MaxCalls == 3
MaxCallsAll == 2

\* Most albums of the in-memory repository.
MaxMem == 3

\* Most requests of a run of overlapping Updates.
MaxCallsRaces == 4

\* ------------------------------------------------- expiries (30 s units)

AllTTL == 2
IDTTL == 10
ArtistTTL == 4
StockTTL == 1
DefaultTTL == 10

\* ------------------------------------------------------------ domain.Album

ZeroAlbum ==
    [ID |-> "", Title |-> "", Artist |-> "", Price |-> 0, Year |-> 0,
     Genre |-> "", Condition |-> "", InStock |-> FALSE,
     CreatedAt |-> 0, UpdatedAt |-> 0]

\* Request bodies a client sends (no ID, no timestamps).  The first has
\* another artist than the seeded row and a price with a third decimal; the
\* second is the seeded album, out of stock.
Requests ==
    { [ZeroAlbum EXCEPT !.Title = "Time Out", !.Artist = "B", !.Price = 45005,
                        !.Year = 1959, !.Genre = "Cool Jazz",
                        !.Condition = "fair", !.InStock = TRUE],
      [ZeroAlbum EXCEPT !.Title = "Blue Train", !.Artist = "A", !.Price = 56990,
                        !.Year = 1957, !.Genre = "Hard Bop",
                        !.Condition = "mint", !.InStock = FALSE] }

\* Request bodies the service refuses: no title, a negative price.
BadRequests ==
    { [ZeroAlbum EXCEPT !.Title = "", !.Artist = "B", !.Price = 45005,
                        !.Year = 1959, !.Genre = "Cool Jazz",
                        !.Condition = "fair", !.InStock = TRUE],
      [ZeroAlbum EXCEPT !.Title = "Blue Train", !.Artist = "A", !.Price = -10,
                        !.Year = 1957, !.Genre = "Hard Bop",
                        !.Condition = "mint", !.InStock = FALSE] }

Artists == {"A", "B"}

\* The first row the schema script seeds, its artist named A.
SeedAlbum ==
    [ZeroAlbum EXCEPT !.ID = "1", !.Title = "Blue Train", !.Artist = "A",
                      !.Price = 56990, !.Year = 1957, !.Genre = "Hard Bop",
                      !.Condition = "mint", !.InStock = TRUE,
                      !.CreatedAt = 1000, !.UpdatedAt = 1000]

\* ------------------------------------------------------------- sequences

\* The indices 1..Len(keys) ordered by descending key, ties in index order.
DescOrder(keys) ==
    LET n == Len(keys)
    IN  CHOOSE p \in [1..n -> 1..n] :
            /\ \A i, j \in 1..n : i # j => p[i] # p[j]
            /\ \A i, j \in 1..n :
                   i < j => \/ keys[p[i]] > keys[p[j]]
                            \/ keys[p[i]] = keys[p[j]] /\ p[i] < p[j]

\* Every order in which a scan can meet the rows of a table.
Orders(rows) ==
    { s \in [1..Cardinality(rows) -> rows] :
          \A i, j \in 1..Cardinality(rows) : i # j => s[i] # s[j] }

\* ------------------------------------------ the albums table (PostgreSQL)

\* price DECIMAL(10,2): the column keeps two decimals, rounding half up.
PgNumeric(p) == ((p + 5) \div 10) * 10

\* TIMESTAMP WITH TIME ZONE: the column keeps microseconds.
PgTimestamptz(t) == ((t + 500) \div 1000) * 1000

\* What the table holds of an album written to it.
PgRow(a) ==
    [a EXCEPT !.Price = PgNumeric(a.Price),
              !.CreatedAt = PgTimestamptz(a.CreatedAt),
              !.UpdatedAt = PgTimestamptz(a.UpdatedAt)]

generateID(now) == ToString(now)

\* ORDER BY created_at DESC over the scan order ord.
ByCreatedDesc(ord) ==
    LET p == DescOrder([i \in 1..Len(ord) |-> ord[i].CreatedAt])
    IN  [i \in 1..Len(ord) |-> ord[p[i]]]

\* ORDER BY year DESC over the scan order ord.
ByYearDesc(ord) ==
    LET p == DescOrder([i \in 1..Len(ord) |-> ord[i].Year])
    IN  [i \in 1..Len(ord) |-> ord[p[i]]]

PgGetAll(ord, fail) ==
    IF fail THEN [albums |-> <<>>, err |-> "failed to get albums"]
    ELSE [albums |-> ByCreatedDesc(ord), err |-> ""]

PgGetByID(rows, id, fail) ==
    IF fail THEN [album |-> <<>>, err |-> "failed to get album"]
    ELSE IF \E r \in rows : r.ID = id
    THEN [album |-> <<CHOOSE r \in rows : r.ID = id>>, err |-> ""]
    ELSE [album |-> <<>>, err |-> "album not found"]

\* now = <<reading of generateID, of CreatedAt, of UpdatedAt>>.  id is the
\* primary key: a second row with the same id is refused.
PgCreate(rows, album, now, fail) ==
    LET a == [album EXCEPT !.ID = generateID(now[1]),
                           !.CreatedAt = now[2], !.UpdatedAt = now[3]]
    IN  IF fail \/ \E r \in rows : r.ID = a.ID
        THEN [rows |-> rows, album |-> a, err |-> "failed to create album"]
        ELSE [rows |-> rows \cup {PgRow(a)}, album |-> a, err |-> ""]

\* UPDATE sets every column but id and created_at.
\* An UPDATE that leaves the price column out of its SET list.
PgUpdateNoPrice(rows, album, now, fail) ==
    LET a == [album EXCEPT !.UpdatedAt = now]
    IN  IF fail
        THEN [rows |-> rows, album |-> a, err |-> "failed to update album"]
        ELSE IF ~ \E r \in rows : r.ID = a.ID
        THEN [rows |-> rows, album |-> a, err |-> "album with ID not found"]
        ELSE LET old == CHOOSE r \in rows : r.ID = a.ID
                 new == PgRow([a EXCEPT !.CreatedAt = old.CreatedAt,
                                        !.Price = old.Price])
             IN  [rows |-> (rows \ {old}) \cup {new}, album |-> a, err |-> ""]

PgUpdate(rows, album, now, fail) ==
    LET a == [album EXCEPT !.UpdatedAt = now]
    IN  IF fail
        THEN [rows |-> rows, album |-> a, err |-> "failed to update album"]
        ELSE IF ~ \E r \in rows : r.ID = a.ID
        THEN [rows |-> rows, album |-> a, err |-> "album with ID not found"]
        ELSE LET old == CHOOSE r \in rows : r.ID = a.ID
                 new == PgRow([a EXCEPT !.CreatedAt = old.CreatedAt])
             IN  [rows |-> (rows \ {old}) \cup {new}, album |-> a, err |-> ""]

\* A DELETE whose WHERE clause matches no row, reported as done.
PgDeleteNoRow(rows, id, fail) ==
    IF fail THEN [rows |-> rows, err |-> "failed to delete album"]
    ELSE IF ~ \E r \in rows : r.ID = id
    THEN [rows |-> rows, err |-> "album with ID not found"]
    ELSE [rows |-> rows, err |-> ""]

PgDelete(rows, id, fail) ==
    IF fail THEN [rows |-> rows, err |-> "failed to delete album"]
    ELSE IF ~ \E r \in rows : r.ID = id
    THEN [rows |-> rows, err |-> "album with ID not found"]
    ELSE [rows |-> { r \in rows : r.ID # id }, err |-> ""]

PgGetByArtist(ord, artist, fail) ==
    IF fail THEN [albums |-> <<>>, err |-> "failed to get albums by artist"]
    ELSE LET Match(r) == r.Artist = artist
         IN  [albums |-> ByYearDesc(SelectSeq(ord, Match)), err |-> ""]

PgGetInStock(ord, fail) ==
    IF fail THEN [albums |-> <<>>, err |-> "failed to get albums"]
    ELSE LET Match(r) == r.InStock
         IN  [albums |-> ByCreatedDesc(SelectSeq(ord, Match)), err |-> ""]

\* ------------------------------------------------ MemoryAlbumRepository

\* The albums of the in-memory repository are a slice; its methods run under
\* the repository's mutex, one at a time.

\* Index of the first album with this id, 0 when there is none.
IndexOf(albums, id) ==
    IF \E i \in 1..Len(albums) : albums[i].ID = id
    THEN CHOOSE i \in 1..Len(albums) :
            /\ albums[i].ID = id
            /\ \A j \in 1..(i - 1) : albums[j].ID # id
    ELSE 0

\* now = <<reading of generateID, of CreatedAt, of UpdatedAt>>.
MemCreate(albums, album, now) ==
    LET a == [album EXCEPT !.ID = generateID(now[1]),
                           !.CreatedAt = now[2], !.UpdatedAt = now[3]]
    IN  [rows |-> Append(albums, a), album |-> a, err |-> ""]

\* An Update that stores the album as it was given, created-at included.
MemUpdateAsGiven(albums, album, now) ==
    LET i == IndexOf(albums, album.ID)
        a == [album EXCEPT !.UpdatedAt = now]
    IN  IF i = 0
        THEN [rows |-> albums, album |-> album, err |-> "album with ID not found"]
        ELSE [rows |-> [albums EXCEPT ![i] = a], album |-> a, err |-> ""]

MemUpdate(albums, album, now) ==
    LET i == IndexOf(albums, album.ID)
        a == [album EXCEPT !.CreatedAt = albums[i].CreatedAt, !.UpdatedAt = now]
    IN  IF i = 0
        THEN [rows |-> albums, album |-> album, err |-> "album with ID not found"]
        ELSE [rows |-> [albums EXCEPT ![i] = a], album |-> a, err |-> ""]

\* A Delete that fills the gap with the last album of the slice.
MemDeleteSwap(albums, id) ==
    LET i == IndexOf(albums, id)
        n == Len(albums)
    IN  IF i = 0
        THEN [rows |-> albums, err |-> "album with ID not found"]
        ELSE [rows |-> SubSeq([albums EXCEPT ![i] = albums[n]], 1, n - 1), err |-> ""]

MemDelete(albums, id) ==
    LET i == IndexOf(albums, id)
    IN  IF i = 0
        THEN [rows |-> albums, err |-> "album with ID not found"]
        ELSE [rows |-> SubSeq(albums, 1, i - 1) \o SubSeq(albums, i + 1, Len(albums)),
              err |-> ""]

\* ------------------------------------------------------------- JSON text

\* A JSON text: its top-level shape and the albums it spells.  The empty
\* string has shape "".
Empty == [shape |-> "", items |-> <<>>]

MarshalAlbum(a) == [shape |-> "object", items |-> <<a>>]

\* A nil slice marshals to null, any other to an array.
MarshalAlbums(s) ==
    IF s = <<>> THEN [shape |-> "null", items |-> <<>>]
    ELSE [shape |-> "array", items |-> s]

\* json.Unmarshal into a domain.Album: null leaves the zero value.
UnmarshalAlbum(d) ==
    IF d.shape = "object" THEN [album |-> d.items[1], err |-> ""]
    ELSE IF d.shape = "null" THEN [album |-> ZeroAlbum, err |-> ""]
    ELSE [album |-> ZeroAlbum, err |-> "json: cannot unmarshal"]

\* json.Unmarshal into a []domain.Album.
UnmarshalAlbums(d) ==
    IF d.shape = "array" THEN [albums |-> d.items, err |-> ""]
    ELSE IF d.shape = "null" THEN [albums |-> <<>>, err |-> ""]
    ELSE [albums |-> <<>>, err |-> "json: cannot unmarshal"]

\* ----------------------------------------------------------- RedisClient

\* A cache is a function from its live keys to [val, ttl], ttl the time the
\* entry has left.

\* A Set that takes the client's default expiry whatever the caller asks.
RedisSetDefaultTTL(c, key, value, ttl, fail) ==
    IF fail THEN [cache |-> c, err |-> "saving in Redis error"]
    ELSE [cache |-> [k \in DOMAIN c \cup {key} |->
                        IF k = key THEN [val |-> value, ttl |-> DefaultTTL] ELSE c[k]],
          err |-> ""]

RedisSet(c, key, value, ttl, fail) ==
    IF fail THEN [cache |-> c, err |-> "saving in Redis error"]
    ELSE LET t == IF ttl = 0 THEN DefaultTTL ELSE ttl
         IN  [cache |-> [k \in DOMAIN c \cup {key} |->
                            IF k = key THEN [val |-> value, ttl |-> t] ELSE c[k]],
              err |-> ""]

RedisGet(c, key, fail) ==
    IF fail THEN [value |-> Empty, err |-> "getting from Redis error"]
    ELSE IF key \in DOMAIN c THEN [value |-> c[key].val, err |-> ""]
    ELSE [value |-> Empty, err |-> ""]

RedisDelete(c, key, fail) ==
    IF fail THEN [cache |-> c, err |-> "deleting from Redis error"]
    ELSE [cache |-> [k \in DOMAIN c \ {key} |-> c[k]], err |-> ""]

\* ------------------------------------------------- CachedAlbumRepository

\* A key that names the category only when there is no discriminator.
generateCacheKeyFlat(dataType, id) ==
    IF id = "" THEN "album:" \o dataType ELSE "album:" \o id

generateCacheKey(dataType, id) == "album:" \o dataType \o ":" \o id

\* The keys of the lists.
ListKeys ==
    {generateCacheKey("all", ""), generateCacheKey("stock", "")}
    \cup { generateCacheKey("artist", a) : a \in Artists }

\* A payload that is not JSON.
NotJSON == [shape |-> "text", items |-> <<>>]

\* json.Unmarshal of payload d, read under key k, into the type the read of
\* k expects (a []domain.Album for a list, a domain.Album for an id) fails.
ParseFails(k, d) ==
    IF k \in ListKeys THEN UnmarshalAlbums(d).err # ""
    ELSE UnmarshalAlbum(d).err # ""

\* One cache call of a background goroutine.
SetCall(key, value, ttl) == [op |-> "Set", key |-> key, value |-> value, ttl |-> ttl]

\* invalidateCache(dataType, id).
invalidateCache(dataType, id) ==
    [op |-> "Delete", key |-> generateCacheKey(dataType, id), value |-> Empty, ttl |-> 0]

\* cacheAlbum(album).
cacheAlbum(album) == SetCall(generateCacheKey("id", album.ID), MarshalAlbum(album), IDTTL)

\* The call is made under the decorator's timeout of 2 seconds: the Get of a
\* read and the Delete of invalidateCache are given
\* context.WithTimeout(..., c.timeOut); the Set of a read's goroutine and of
\* cacheAlbum is given context.Background(), which has no deadline.
Timed(call) == call.op # "Set"

\* A goroutine: the cache calls it still has to make.  early (a history
\* field) says that a store write has committed since the goroutine was
\* handed its data.
Goroutine(calls) == [calls |-> calls, early |-> FALSE]

\* What a read returns: the albums (a *Album is a sequence of at most one),
\* the error, and what the call did: hit (served from the cache), getErr
\* (the cache read failed), spawn (the goroutines it started).
ReadResult(albums, err, hit, getErr, spawn) ==
    [albums |-> albums, err |-> err, hit |-> hit, getErr |-> getErr, spawn |-> spawn,
     calls |-> 1]

\* The result of a read the service refused: the repository was not called.
Refused(err) == [ReadResult(<<>>, err, FALSE, FALSE, <<>>) EXCEPT !.calls = 0]

\* A GetAll that gives up when the cache read fails.
CachedGetAllCacheErr(ord, cache, getFail, repoFail) ==
    LET cacheKey == generateCacheKey("all", "")
        got == RedisGet(cache, cacheKey, getFail)
        parsed == UnmarshalAlbums(got.value)
    IN  IF got.err # ""
        THEN ReadResult(<<>>, got.err, FALSE, TRUE, <<>>)
        ELSE IF got.value # Empty /\ parsed.err = ""
        THEN ReadResult(parsed.albums, "", TRUE, FALSE, <<>>)
        ELSE LET r == PgGetAll(ord, repoFail)
             IN  IF r.err # ""
                 THEN ReadResult(<<>>, r.err, FALSE, FALSE, <<>>)
                 ELSE ReadResult(r.albums, "", FALSE, FALSE,
                        << Goroutine(<<SetCall(cacheKey, MarshalAlbums(r.albums), AllTTL)>>) >>)

\* A GetAll that stores its list without naming an expiry.
CachedGetAllNoTTL(ord, cache, getFail, repoFail) ==
    LET cacheKey == generateCacheKey("all", "")
        got == RedisGet(cache, cacheKey, getFail)
        parsed == UnmarshalAlbums(got.value)
    IN  IF got.value # Empty /\ parsed.err = ""
        THEN ReadResult(parsed.albums, "", TRUE, got.err # "", <<>>)
        ELSE LET r == PgGetAll(ord, repoFail)
             IN  IF r.err # ""
                 THEN ReadResult(<<>>, r.err, FALSE, got.err # "", <<>>)
                 ELSE ReadResult(r.albums, "", FALSE, got.err # "",
                        << Goroutine(<<SetCall(cacheKey, MarshalAlbums(r.albums), 0)>>) >>)

CachedGetAll(ord, cache, getFail, repoFail) ==
    LET cacheKey == generateCacheKey("all", "")
        got == RedisGet(cache, cacheKey, getFail)
        parsed == UnmarshalAlbums(got.value)
    IN  IF got.value # Empty /\ parsed.err = ""
        THEN ReadResult(parsed.albums, "", TRUE, got.err # "", <<>>)
        ELSE LET r == PgGetAll(ord, repoFail)
             IN  IF r.err # ""
                 THEN ReadResult(<<>>, r.err, FALSE, got.err # "", <<>>)
                 ELSE ReadResult(r.albums, "", FALSE, got.err # "",
                        << Goroutine(<<SetCall(cacheKey, MarshalAlbums(r.albums), AllTTL)>>) >>)

\* A GetByID that asks the store whatever the cache holds.
CachedGetByIDStoreOnly(rows, cache, id, getFail, repoFail) ==
    LET cacheKey == generateCacheKey("id", id)
        got == RedisGet(cache, cacheKey, getFail)
        r == PgGetByID(rows, id, repoFail)
    IN  IF r.err # ""
        THEN ReadResult(<<>>, r.err, FALSE, got.err # "", <<>>)
        ELSE ReadResult(r.album, "", FALSE, got.err # "",
               << Goroutine(<<SetCall(cacheKey, MarshalAlbum(r.album[1]), IDTTL)>>) >>)

\* A GetByID that stores its album with twice the by-id expiry.
CachedGetByIDLongTTL(rows, cache, id, getFail, repoFail) ==
    LET cacheKey == generateCacheKey("id", id)
        got == RedisGet(cache, cacheKey, getFail)
        parsed == UnmarshalAlbum(got.value)
    IN  IF got.value # Empty /\ parsed.err = ""
        THEN ReadResult(<<parsed.album>>, "", TRUE, got.err # "", <<>>)
        ELSE LET r == PgGetByID(rows, id, repoFail)
             IN  IF r.err # ""
                 THEN ReadResult(<<>>, r.err, FALSE, got.err # "", <<>>)
                 ELSE ReadResult(r.album, "", FALSE, got.err # "",
                        << Goroutine(<<SetCall(cacheKey, MarshalAlbum(r.album[1]),
                                               IDTTL + IDTTL)>>) >>)

\* A GetByID that stores an empty album when the store has no such row.
CachedGetByIDCachesMissing(rows, cache, id, getFail, repoFail) ==
    LET cacheKey == generateCacheKey("id", id)
        got == RedisGet(cache, cacheKey, getFail)
        parsed == UnmarshalAlbum(got.value)
    IN  IF got.value # Empty /\ parsed.err = ""
        THEN ReadResult(<<parsed.album>>, "", TRUE, got.err # "", <<>>)
        ELSE LET r == PgGetByID(rows, id, repoFail)
             IN  IF r.err # ""
                 THEN ReadResult(<<>>, r.err, FALSE, got.err # "",
                        << Goroutine(<<SetCall(cacheKey, MarshalAlbum(ZeroAlbum),
                                               IDTTL)>>) >>)
                 ELSE ReadResult(r.album, "", FALSE, got.err # "",
                        << Goroutine(<<SetCall(cacheKey, MarshalAlbum(r.album[1]),
                                               IDTTL)>>) >>)

\* A GetByID that returns the error of json.Unmarshal.
CachedGetByIDParseErr(rows, cache, id, getFail, repoFail) ==
    LET cacheKey == generateCacheKey("id", id)
        got == RedisGet(cache, cacheKey, getFail)
        parsed == UnmarshalAlbum(got.value)
    IN  IF got.value # Empty /\ parsed.err = ""
        THEN ReadResult(<<parsed.album>>, "", TRUE, got.err # "", <<>>)
        ELSE IF got.value # Empty
        THEN ReadResult(<<>>, parsed.err, FALSE, got.err # "", <<>>)
        ELSE LET r == PgGetByID(rows, id, repoFail)
             IN  IF r.err # ""
                 THEN ReadResult(<<>>, r.err, FALSE, got.err # "", <<>>)
                 ELSE ReadResult(r.album, "", FALSE, got.err # "",
                        << Goroutine(<<SetCall(cacheKey, MarshalAlbum(r.album[1]),
                                               IDTTL)>>) >>)

CachedGetByID(rows, cache, id, getFail, repoFail) ==
    LET cacheKey == generateCacheKey("id", id)
        got == RedisGet(cache, cacheKey, getFail)
        parsed == UnmarshalAlbum(got.value)
    IN  IF got.value # Empty /\ parsed.err = ""
        THEN ReadResult(<<parsed.album>>, "", TRUE, got.err # "", <<>>)
        ELSE LET r == PgGetByID(rows, id, repoFail)
             IN  IF r.err # ""
                 THEN ReadResult(<<>>, r.err, FALSE, got.err # "", <<>>)
                 ELSE ReadResult(r.album, "", FALSE, got.err # "",
                        << Goroutine(<<SetCall(cacheKey, MarshalAlbum(r.album[1]), IDTTL)>>) >>)

\* A GetByArtist that gives up when the cache read fails.
CachedGetByArtistCacheErr(ord, cache, artist, getFail, repoFail) ==
    LET cacheKey == generateCacheKey("artist", artist)
        got == RedisGet(cache, cacheKey, getFail)
        parsed == UnmarshalAlbums(got.value)
    IN  IF got.err # ""
        THEN ReadResult(<<>>, got.err, FALSE, TRUE, <<>>)
        ELSE IF got.value # Empty /\ parsed.err = ""
        THEN ReadResult(parsed.albums, "", TRUE, FALSE, <<>>)
        ELSE LET r == PgGetByArtist(ord, artist, repoFail)
             IN  IF r.err # ""
                 THEN ReadResult(<<>>, r.err, FALSE, FALSE, <<>>)
                 ELSE ReadResult(r.albums, "", FALSE, FALSE,
                        << Goroutine(<<SetCall(cacheKey, MarshalAlbums(r.albums), ArtistTTL)>>) >>)

\* A GetByArtist that, served from the cache, stores the entry again.
CachedGetByArtistRefreshes(ord, cache, artist, getFail, repoFail) ==
    LET cacheKey == generateCacheKey("artist", artist)
        got == RedisGet(cache, cacheKey, getFail)
        parsed == UnmarshalAlbums(got.value)
    IN  IF got.value # Empty /\ parsed.err = ""
        THEN ReadResult(parsed.albums, "", TRUE, got.err # "",
               << Goroutine(<<SetCall(cacheKey, got.value, ArtistTTL)>>) >>)
        ELSE LET r == PgGetByArtist(ord, artist, repoFail)
             IN  IF r.err # ""
                 THEN ReadResult(<<>>, r.err, FALSE, got.err # "", <<>>)
                 ELSE ReadResult(r.albums, "", FALSE, got.err # "",
                        << Goroutine(<<SetCall(cacheKey, MarshalAlbums(r.albums), ArtistTTL)>>) >>)

CachedGetByArtist(ord, cache, artist, getFail, repoFail) ==
    LET cacheKey == generateCacheKey("artist", artist)
        got == RedisGet(cache, cacheKey, getFail)
        parsed == UnmarshalAlbums(got.value)
    IN  IF got.value # Empty /\ parsed.err = ""
        THEN ReadResult(parsed.albums, "", TRUE, got.err # "", <<>>)
        ELSE LET r == PgGetByArtist(ord, artist, repoFail)
             IN  IF r.err # ""
                 THEN ReadResult(<<>>, r.err, FALSE, got.err # "", <<>>)
                 ELSE ReadResult(r.albums, "", FALSE, got.err # "",
                        << Goroutine(<<SetCall(cacheKey, MarshalAlbums(r.albums), ArtistTTL)>>) >>)

\* A GetInStock that stores its list with the expiry of the by-artist lists.
CachedGetInStockArtistTTL(ord, cache, getFail, repoFail) ==
    LET cacheKey == generateCacheKey("stock", "")
        got == RedisGet(cache, cacheKey, getFail)
        parsed == UnmarshalAlbums(got.value)
    IN  IF got.value # Empty /\ parsed.err = ""
        THEN ReadResult(parsed.albums, "", TRUE, got.err # "", <<>>)
        ELSE LET r == PgGetInStock(ord, repoFail)
             IN  IF r.err # ""
                 THEN ReadResult(<<>>, r.err, FALSE, got.err # "", <<>>)
                 ELSE ReadResult(r.albums, "", FALSE, got.err # "",
                        << Goroutine(<<SetCall(cacheKey, MarshalAlbums(r.albums), ArtistTTL)>>) >>)

\* A GetInStock that makes its Set before it returns and returns the
\* Set's error (the Set fails when the Get did).
CachedGetInStockWaits(ord, cache, getFail, repoFail) ==
    LET cacheKey == generateCacheKey("stock", "")
        got == RedisGet(cache, cacheKey, getFail)
        parsed == UnmarshalAlbums(got.value)
    IN  IF got.value # Empty /\ parsed.err = ""
        THEN ReadResult(parsed.albums, "", TRUE, got.err # "", <<>>)
        ELSE LET r == PgGetInStock(ord, repoFail)
                 set == RedisSet(cache, cacheKey, MarshalAlbums(r.albums), StockTTL, getFail)
             IN  IF r.err # ""
                 THEN ReadResult(<<>>, r.err, FALSE, got.err # "", <<>>)
                 ELSE IF set.err # ""
                 THEN ReadResult(<<>>, set.err, FALSE, got.err # "", <<>>)
                 ELSE ReadResult(r.albums, "", FALSE, got.err # "", <<>>)

CachedGetInStock(ord, cache, getFail, repoFail) ==
    LET cacheKey == generateCacheKey("stock", "")
        got == RedisGet(cache, cacheKey, getFail)
        parsed == UnmarshalAlbums(got.value)
    IN  IF got.value # Empty /\ parsed.err = ""
        THEN ReadResult(parsed.albums, "", TRUE, got.err # "", <<>>)
        ELSE LET r == PgGetInStock(ord, repoFail)
             IN  IF r.err # ""
                 THEN ReadResult(<<>>, r.err, FALSE, got.err # "", <<>>)
                 ELSE ReadResult(r.albums, "", FALSE, got.err # "",
                        << Goroutine(<<SetCall(cacheKey, MarshalAlbums(r.albums), StockTTL)>>) >>)

\* What a write returns: the table after it, the caller's album after it
\* (the handlers pass a pointer), the error, the foreground cache calls it
\* made and the goroutines it started.
WriteResult(rows, album, err, calls, spawn) ==
    [rows |-> rows, albums |-> <<album>>, err |-> err, calls |-> calls, spawn |-> spawn]

\* A Create that starts its goroutine before it looks at the store's error.
CachedCreateAlways(rows, album, now, repoFail) ==
    LET r == PgCreate(rows, album, now, repoFail)
    IN  WriteResult(r.rows, r.album, r.err, 0,
               << Goroutine(<< invalidateCache("artist", r.album.Artist),
                               invalidateCache("stock", ""),
                               cacheAlbum(r.album) >>) >>)

\* A Create that also invalidates the list of all albums.
CachedCreateInvalidatesAll(rows, album, now, repoFail) ==
    LET r == PgCreate(rows, album, now, repoFail)
    IN  IF r.err # ""
        THEN WriteResult(r.rows, r.album, r.err, 0, <<>>)
        ELSE WriteResult(r.rows, r.album, "", 0,
               << Goroutine(<< invalidateCache("all", ""),
                               invalidateCache("artist", r.album.Artist),
                               invalidateCache("stock", ""),
                               cacheAlbum(r.album) >>) >>)

CachedCreate(rows, album, now, repoFail) ==
    LET r == PgCreate(rows, album, now, repoFail)
    IN  IF r.err # ""
        THEN WriteResult(r.rows, r.album, r.err, 0, <<>>)
        ELSE WriteResult(r.rows, r.album, "", 0,
               << Goroutine(<< invalidateCache("artist", r.album.Artist),
                               invalidateCache("stock", ""),
                               cacheAlbum(r.album) >>) >>)

\* An Update that also stores the album it was given under its by-id key.
CachedUpdateWarms(rows, album, now, readFail, repoFail) ==
    LET oldAlbum == PgGetByID(rows, album.ID, readFail).album
        r == PgUpdate(rows, album, now, repoFail)
    IN  IF r.err # ""
        THEN WriteResult(r.rows, r.album, r.err, 0, <<>>)
        ELSE WriteResult(r.rows, r.album, "", 0,
               << Goroutine(
                    (IF oldAlbum # <<>>
                     THEN << invalidateCache("artist", oldAlbum[1].Artist) >>
                     ELSE <<>>)
                    \o << invalidateCache("artist", r.album.Artist),
                          invalidateCache("stock", ""),
                          cacheAlbum(r.album) >>) >>)

\* An Update that invalidates the list of the new artist only.
CachedUpdateNewArtistOnly(rows, album, now, readFail, repoFail) ==
    LET r == PgUpdate(rows, album, now, repoFail)
    IN  IF r.err # ""
        THEN WriteResult(r.rows, r.album, r.err, 0, <<>>)
        ELSE WriteResult(r.rows, r.album, "", 0,
               << Goroutine(<< invalidateCache("id", r.album.ID),
                               invalidateCache("artist", r.album.Artist),
                               invalidateCache("stock", "") >>) >>)

\* readFail: the outcome of the read of the old album, whose error is dropped.
CachedUpdate(rows, album, now, readFail, repoFail) ==
    LET oldAlbum == PgGetByID(rows, album.ID, readFail).album
        r == PgUpdate(rows, album, now, repoFail)
    IN  IF r.err # ""
        THEN WriteResult(r.rows, r.album, r.err, 0, <<>>)
        ELSE WriteResult(r.rows, r.album, "", 0,
               << Goroutine(
                    << invalidateCache("id", r.album.ID) >>
                    \o (IF oldAlbum # <<>>
                        THEN << invalidateCache("artist", oldAlbum[1].Artist) >>
                        ELSE <<>>)
                    \o << invalidateCache("artist", r.album.Artist),
                          invalidateCache("stock", "") >>) >>)

\* Update from the store write on: oldAlbum is what the read of the old album
\* returned, some time before.
CachedUpdateFrom(rows, album, oldAlbum, now, repoFail) ==
    LET r == PgUpdate(rows, album, now, repoFail)
    IN  IF r.err # ""
        THEN WriteResult(r.rows, r.album, r.err, 0, <<>>)
        ELSE WriteResult(r.rows, r.album, "", 0,
               << Goroutine(
                    << invalidateCache("id", r.album.ID) >>
                    \o (IF oldAlbum # <<>>
                        THEN << invalidateCache("artist", oldAlbum[1].Artist) >>
                        ELSE <<>>)
                    \o << invalidateCache("artist", r.album.Artist),
                          invalidateCache("stock", "") >>) >>)

\* A Delete that starts its invalidation before it looks at the store's error.
CachedDeleteAlways(rows, id, readFail, repoFail) ==
    LET album == PgGetByID(rows, id, readFail).album
        r == PgDelete(rows, id, repoFail)
    IN  WriteResult(r.rows, ZeroAlbum, r.err, 0,
               << Goroutine(
                    << invalidateCache("id", id) >>
                    \o (IF album # <<>>
                        THEN << invalidateCache("artist", album[1].Artist) >>
                        ELSE <<>>)
                    \o << invalidateCache("stock", "") >>) >>)

\* A Delete that invalidates nothing when it could not read the album.
CachedDeleteNeedsAlbum(rows, id, readFail, repoFail) ==
    LET album == PgGetByID(rows, id, readFail).album
        r == PgDelete(rows, id, repoFail)
    IN  IF r.err # ""
        THEN WriteResult(r.rows, ZeroAlbum, r.err, 0, <<>>)
        ELSE IF album = <<>>
        THEN WriteResult(r.rows, ZeroAlbum, "", 0, <<>>)
        ELSE WriteResult(r.rows, ZeroAlbum, "", 0,
               << Goroutine(
                    << invalidateCache("id", id),
                       invalidateCache("artist", album[1].Artist),
                       invalidateCache("stock", "") >>) >>)

CachedDelete(rows, id, readFail, repoFail) ==
    LET album == PgGetByID(rows, id, readFail).album
        r == PgDelete(rows, id, repoFail)
    IN  IF r.err # ""
        THEN WriteResult(r.rows, ZeroAlbum, r.err, 0, <<>>)
        ELSE WriteResult(r.rows, ZeroAlbum, "", 0,
               << Goroutine(
                    << invalidateCache("id", id) >>
                    \o (IF album # <<>>
                        THEN << invalidateCache("artist", album[1].Artist) >>
                        ELSE <<>>)
                    \o << invalidateCache("stock", "") >>) >>)

\* ----------------------------------------------------------- AlbumService

GetAlbumByID(rows, cache, id, getFail, repoFail) ==
    IF id = "" THEN Refused("id cannot be empty")
    ELSE CachedGetByID(rows, cache, id, getFail, repoFail)

CreateAlbum(rows, album, now, repoFail) ==
    IF album.Title = "" THEN WriteResult(rows, album, "title cannot be empty", 0, <<>>)
    ELSE IF album.Price < 0 THEN WriteResult(rows, album, "price cannot be negative", 0, <<>>)
    ELSE CachedCreate(rows, album, now, repoFail)

DeleteAlbum(rows, id, readFail, repoFail) ==
    IF id = "" THEN WriteResult(rows, ZeroAlbum, "id cannot be empty", 0, <<>>)
    ELSE CachedDelete(rows, id, readFail, repoFail)

GetAlbumsByArtist(ord, cache, artist, getFail, repoFail) ==
    IF artist = "" THEN Refused("artist cannot be empty")
    ELSE CachedGetByArtist(ord, cache, artist, getFail, repoFail)

\* An UpdateAlbum that looks the album up before it checks title and price.
UpdateAlbumLooksUpFirst(rows, cache, album, now, getFail, findFail, readFail, repoFail) ==
    IF album.ID = "" THEN WriteResult(rows, album, "id cannot be empty", 0, <<>>)
    ELSE LET existing == CachedGetByID(rows, cache, album.ID, getFail, findFail)
         IN  IF existing.err # ""
             THEN WriteResult(rows, album, "album not found " \o existing.err, 1, <<>>)
             ELSE IF album.Title = ""
             THEN WriteResult(rows, album, "title cannot be empty", 1, existing.spawn)
             ELSE IF album.Price < 0
             THEN WriteResult(rows, album, "price cannot be negative", 1, existing.spawn)
             ELSE LET a == [album EXCEPT !.CreatedAt = existing.albums[1].CreatedAt]
                      u == CachedUpdate(rows, a, now, readFail, repoFail)
                  IN  WriteResult(u.rows, u.albums[1], u.err, 1, existing.spawn \o u.spawn)

\* getFail, findFail: the outcomes of the cache read and the store read of
\* the existence check.
UpdateAlbum(rows, cache, album, now, getFail, findFail, readFail, repoFail) ==
    IF album.ID = "" THEN WriteResult(rows, album, "id cannot be empty", 0, <<>>)
    ELSE IF album.Title = "" THEN WriteResult(rows, album, "title cannot be empty", 0, <<>>)
    ELSE IF album.Price < 0 THEN WriteResult(rows, album, "price cannot be negative", 0, <<>>)
    ELSE LET existing == CachedGetByID(rows, cache, album.ID, getFail, findFail)
         IN  IF existing.err # ""
             THEN WriteResult(rows, album, "album not found " \o existing.err, 1, <<>>)
             ELSE LET a == [album EXCEPT !.CreatedAt = existing.albums[1].CreatedAt]
                      u == CachedUpdate(rows, a, now, readFail, repoFail)
                  IN  WriteResult(u.rows, u.albums[1], u.err, 1, existing.spawn \o u.spawn)

\* ----------------------------------------------------------- AlbumHandler

\* The HTTP status each handler answers with, err the service's error.
RestGetAlbumByID(err) == IF err # "" THEN 404 ELSE 200

RestCreateAlbum(err) == IF err # "" THEN 400 ELSE 201

RestUpdateAlbum(err) == IF err # "" THEN 400 ELSE 200

RestDeleteAlbum(err) == IF err # "" THEN 404 ELSE 204

RestGetAlbumsByArtist(err) == IF err # "" THEN 404 ELSE 200

\* ------------------------------------------------------------------ state

VARIABLES
    db,          \* the rows of the albums table
    cache,       \* the Redis keys: key -> [val, ttl]
    tasks,       \* the goroutines started and not yet finished
    clock,       \* the last reading of time.Now()
    cacheDown,   \* the cache backend fails every call
    cacheSound,  \* the cache backend fails no call
    badInput,    \* clients also send input the service refuses
    budget,      \* the requests the run may still make
    mem,         \* the albums slice of a MemoryAlbumRepository
    inflight,    \* the Updates that have read the old album and not yet written
    ref,         \* history: the table of a plain repository given the same writes
    fate,        \* history: id -> the last successful write of that id
    sinceWrite,  \* history: time since the last successful write
    marks,       \* history: what is known of the keys and of the last write
    quiet,       \* history: time counted since the writes stopped
    views,       \* the slices GetAll of the in-memory repository handed out
    last         \* history: the call that has just returned, and what it returned

vars == <<db, cache, tasks, clock, cacheDown, cacheSound, badInput, budget, mem, inflight,
          ref, fate, sinceWrite, marks, quiet, views, last>>

\* What the operations of the decorator taken whole leave alone.
others == <<cacheSound, badInput, mem, inflight, quiet, views>>

\* marks.stale: the keys whose data was obtained before the last store
\* write.  marks.late: those of them that were stored after it.
\* marks.moved: <<A, B, id>> when the last store write was an update that
\* changed the artist of id from A to B.
NoMarks == [stale |-> {}, late |-> {}, moved |-> <<>>]

\* The history clock stops counting past the longest list expiry.
Cap == ArtistTTL + 1

Elapse(n) == IF n < Cap THEN n + 1 ELSE Cap

\* The outcomes a cache call can have: TRUE is a failure (timeout, connection).
CacheFaults ==
    IF cacheDown THEN {TRUE} ELSE IF cacheSound THEN {FALSE} ELSE BOOLEAN

\* The outcomes of a store call.
RepoFaults == BOOLEAN

\* How far the clock moves between two readings.
ClockSteps == {1}

\* The ids a request can name: those of rows and those once written.
Ids == { r.ID : r \in db } \cup DOMAIN fate

\* The ids, artists and bodies the clients of the service send.
SvcIds == Ids \cup (IF badInput THEN {""} ELSE {})

SvcArtists == Artists \cup (IF badInput THEN {""} ELSE {})

SvcRequests == Requests \cup (IF badInput THEN BadRequests ELSE {})

NoCall ==
    [op |-> "", arg |-> "", albums |-> <<>>, err |-> "", hit |-> FALSE,
     getErr |-> FALSE, warm |-> FALSE, calls |-> 0, spawned |-> 0,
     repoFail |-> FALSE, refAlbums |-> <<>>, refErr |-> "", fate |-> <<>>,
     sinceWrite |-> Cap, stale |-> FALSE, late |-> FALSE, moved |-> <<>>,
     invalid |-> FALSE, repoErr |-> "", status |-> 0, readFail |-> FALSE,
     old |-> <<>>, page |-> <<>>]

FateOf(id) == IF id \in DOMAIN fate THEN <<fate[id]>> ELSE <<>>

\* The record of a read: r the result, ra and re the albums and the error
\* of the same read on the store alone.  warm: the key was in the cache.
ReadCall(op, dataType, arg, r, repoFail, ra, re) ==
    LET key == generateCacheKey(dataType, arg)
    IN  [NoCall EXCEPT !.op = op, !.arg = arg, !.albums = r.albums, !.err = r.err,
                       !.hit = r.hit, !.getErr = r.getErr,
                       !.warm = key \in DOMAIN cache, !.calls = r.calls,
                       !.spawned = Len(r.spawn), !.repoFail = repoFail,
                       !.refAlbums = ra, !.refErr = re,
                       !.fate = FateOf(arg),
                       !.sinceWrite = sinceWrite,
                       !.stale = r.hit /\ key \in marks.stale,
                       !.late = r.hit /\ key \in marks.late,
                       !.moved = marks.moved]

\* The record of a write: r the result, p the result of the same write on
\* the store alone (with the album the caller then holds).
WriteCall(op, arg, r, repoFail, p) ==
    [NoCall EXCEPT !.op = op, !.arg = arg, !.albums = r.albums, !.err = r.err,
                   !.calls = r.calls, !.spawned = Len(r.spawn),
                   !.repoFail = repoFail,
                   !.refAlbums = <<p.album>>, !.refErr = p.err,
                   !.fate = FateOf(arg), !.sinceWrite = sinceWrite]

\* What a handler of the service adds to the record of its call: invalid
\* (the input breaks a rule of the service), repoErr (the error the
\* repository returned to the service) and the HTTP status answered.
Served(call, invalid, repoErr, status) ==
    [call EXCEPT !.invalid = invalid, !.repoErr = repoErr, !.status = status]

\* What a write that reads the old album adds to the record of its call:
\* the row as it was and, of a write that succeeded, the outcome of that read.
Reading(call, id, readFail) ==
    [call EXCEPT !.readFail = readFail /\ call.err = "",
                 !.old = IF \E r \in db : r.ID = id
                         THEN <<CHOOSE r \in db : r.ID = id>> ELSE <<>>]

Early(ts) == [i \in 1..Len(ts) |-> [ts[i] EXCEPT !.early = TRUE]]

Written(id, by, album) ==
    [k \in DOMAIN fate \cup {id} |->
        IF k = id THEN [by |-> by, album |-> album] ELSE fate[k]]

\* <<A, B, id>> when writing album changes the artist of row id from A to B.
Moved(album) ==
    IF \E r \in db : r.ID = album.ID /\ r.Artist # album.Artist
    THEN <<(CHOOSE r \in db : r.ID = album.ID).Artist, album.Artist, album.ID>>
    ELSE <<>>

\* The albums NewMemoryAlbumRepository starts with: the two timestamps are
\* two readings of the clock.
MemSeed == [SeedAlbum EXCEPT !.CreatedAt = 1498, !.UpdatedAt = 1499]

\* The service starts on the seeded table with an empty cache.
StartWith(down, sound, bad, calls) ==
    /\ db = {SeedAlbum}
    /\ cache = [k \in {} |-> Empty]
    /\ tasks = <<>>
    /\ clock = 1499
    /\ cacheDown = down
    /\ cacheSound = sound
    /\ badInput = bad
    /\ budget = calls
    /\ mem = <<MemSeed>>
    /\ inflight = <<>>
    /\ ref = {SeedAlbum}
    /\ fate = [k \in {} |-> Empty]
    /\ sinceWrite = Cap
    /\ marks = NoMarks
    /\ quiet = 0
    /\ views = <<>>
    /\ last = NoCall

Start(down, calls) == StartWith(down, FALSE, FALSE, calls)

Init == Start(FALSE, MaxCallsAll)

\* ---------------------------------------------------------------- reads

\* A read changes nothing but the goroutines.
Read(r, call) ==
    /\ budget > 0
    /\ budget' = budget - 1
    /\ Len(tasks) + Len(r.spawn) <= MaxTasks
    /\ tasks' = tasks \o r.spawn
    /\ last' = call
    /\ UNCHANGED <<db, cache, clock, cacheDown, ref, fate, sinceWrite, marks, others>>

GetAll ==
    \E ord \in Orders(db), getFail \in CacheFaults, repoFail \in RepoFaults :
        LET r == CachedGetAll(ord, cache, getFail, repoFail)
            p == PgGetAll(ord, repoFail)
        IN  Read(r, ReadCall("GetAll", "all", "", r, repoFail, p.albums, p.err))

GetByID ==
    \E id \in Ids, getFail \in CacheFaults, repoFail \in RepoFaults :
        LET r == CachedGetByID(db, cache, id, getFail, repoFail)
            p == PgGetByID(ref, id, repoFail)
        IN  Read(r, ReadCall("GetByID", "id", id, r, repoFail, p.album, p.err))

GetByArtist ==
    \E artist \in Artists, ord \in Orders(db),
       getFail \in CacheFaults, repoFail \in RepoFaults :
        LET r == CachedGetByArtist(ord, cache, artist, getFail, repoFail)
            p == PgGetByArtist(ord, artist, repoFail)
        IN  Read(r, ReadCall("GetByArtist", "artist", artist, r, repoFail, p.albums, p.err))

GetInStock ==
    \E ord \in Orders(db), getFail \in CacheFaults, repoFail \in RepoFaults :
        LET r == CachedGetInStock(ord, cache, getFail, repoFail)
            p == PgGetInStock(ord, repoFail)
        IN  Read(r, ReadCall("GetInStock", "stock", "", r, repoFail, p.albums, p.err))

SvcGetAlbumByID ==
    \E id \in Ids \cup {""}, getFail \in CacheFaults, repoFail \in RepoFaults :
        LET r == GetAlbumByID(db, cache, id, getFail, repoFail)
            p == PgGetByID(ref, id, repoFail)
            e == IF id = "" THEN ""
                 ELSE CachedGetByID(db, cache, id, getFail, repoFail).err
        IN  Read(r, Served(ReadCall("GetAlbumByID", "id", id, r, repoFail, p.album, p.err),
                           id = "", e, RestGetAlbumByID(r.err)))

SvcGetAlbumsByArtist ==
    \E artist \in SvcArtists, ord \in Orders(db),
       getFail \in CacheFaults, repoFail \in RepoFaults :
        LET r == GetAlbumsByArtist(ord, cache, artist, getFail, repoFail)
            p == PgGetByArtist(ord, artist, repoFail)
            e == IF artist = "" THEN ""
                 ELSE CachedGetByArtist(ord, cache, artist, getFail, repoFail).err
        IN  Read(r, Served(ReadCall("GetAlbumsByArtist", "artist", artist, r, repoFail,
                                    p.albums, p.err),
                           artist = "", e, RestGetAlbumsByArtist(r.err)))

\* --------------------------------------------------------------- writes

\* A write: r the result, early how many of the goroutines of r were started
\* before the store write, newFate and moved the history after a success.
Write(r, early, call, reading, refRows, newFate, moved) ==
    /\ budget > 0
    /\ budget' = budget - 1
    /\ Len(tasks) + Len(r.spawn) <= MaxTasks
    /\ reading <= MaxClock
    /\ db' = r.rows
    /\ ref' = refRows
    /\ clock' = reading
    /\ last' = call
    /\ IF r.err = ""
       THEN /\ tasks' = Early(tasks \o SubSeq(r.spawn, 1, early))
                        \o SubSeq(r.spawn, early + 1, Len(r.spawn))
            /\ fate' = newFate
            /\ sinceWrite' = 0
            /\ marks' = [stale |-> DOMAIN cache, late |-> {}, moved |-> moved]
       ELSE /\ tasks' = tasks \o r.spawn
            /\ UNCHANGED <<fate, sinceWrite, marks>>
    /\ UNCHANGED <<cache, cacheDown, others>>

Create ==
    /\ Cardinality(db) < MaxAlbums
    /\ \E album \in Requests, repoFail \in RepoFaults, d1, d2, d3 \in ClockSteps :
        LET now == <<clock + d1, clock + d1 + d2, clock + d1 + d2 + d3>>
            r == CachedCreate(db, album, now, repoFail)
            p == PgCreate(ref, album, now, repoFail)
            a == r.albums[1]
        IN  Write(r, 0, WriteCall("Create", a.ID, r, repoFail, p), now[3], p.rows,
                  Written(a.ID, "Create", a), <<>>)

Update ==
    \E id \in Ids, body \in Requests, d \in ClockSteps,
       readFail \in RepoFaults, repoFail \in RepoFaults :
        LET album == [body EXCEPT !.ID = id]
            r == CachedUpdate(db, album, clock + d, readFail, repoFail)
            p == PgUpdate(ref, album, clock + d, repoFail)
        IN  Write(r, 0, Reading(WriteCall("Update", id, r, repoFail, p), id, readFail),
                  clock + d, p.rows,
                  Written(id, "Update", r.albums[1]), Moved(album))

\* A Delete that waits for its invalidation and returns the cache's error.
DeleteSync ==
    \E id \in Ids, readFail \in RepoFaults, repoFail \in RepoFaults,
       fail \in CacheFaults :
        LET d == CachedDelete(db, id, readFail, repoFail)
            r == IF d.err = "" /\ fail
                 THEN [d EXCEPT !.err = "deleting from Redis error", !.calls = 1,
                                !.spawn = <<>>]
                 ELSE d
            p == PgDelete(ref, id, repoFail)
        IN  Write(r, 0,
                  WriteCall("Delete", id, r, repoFail, [album |-> ZeroAlbum, err |-> p.err]),
                  clock, p.rows, Written(id, "Delete", ZeroAlbum), <<>>)

Delete ==
    \E id \in Ids, readFail \in RepoFaults, repoFail \in RepoFaults :
        LET r == CachedDelete(db, id, readFail, repoFail)
            p == PgDelete(ref, id, repoFail)
        IN  Write(r, 0,
                  Reading(WriteCall("Delete", id, r, repoFail,
                                    [album |-> ZeroAlbum, err |-> p.err]), id, readFail),
                  clock, p.rows, Written(id, "Delete", ZeroAlbum), <<>>)

\* ------------------------------------------------- writes on a store alone

\* Two readings of the clock can be the same.
CoarseSteps == {0, 1}

\* The three readings of a Create.
Readings(d1, d2, d3) == <<clock + d1, clock + d1 + d2, clock + d1 + d2 + d3>>

\* Create, Update and Delete of the Postgres repository, called without the
\* decorator.
StoreCreate ==
    /\ Cardinality(db) < MaxAlbums
    /\ \E album \in Requests, repoFail \in RepoFaults, d1, d2, d3 \in CoarseSteps :
        LET now == Readings(d1, d2, d3)
            p == PgCreate(db, album, now, repoFail)
            r == WriteResult(p.rows, p.album, p.err, 0, <<>>)
        IN  Write(r, 0, WriteCall("PgCreate", p.album.ID, r, repoFail, p), now[3],
                  p.rows, Written(p.album.ID, "PgCreate", p.album), <<>>)

StoreUpdate ==
    \E id \in Ids, body \in Requests, d \in CoarseSteps, repoFail \in RepoFaults :
        LET album == [body EXCEPT !.ID = id]
            p == PgUpdate(db, album, clock + d, repoFail)
            r == WriteResult(p.rows, p.album, p.err, 0, <<>>)
        IN  Write(r, 0, Reading(WriteCall("PgUpdate", id, r, repoFail, p), id, FALSE),
                  clock + d, p.rows, Written(id, "PgUpdate", p.album), Moved(album))

StoreDelete ==
    \E id \in Ids, repoFail \in RepoFaults :
        LET p == PgDelete(db, id, repoFail)
            r == WriteResult(p.rows, ZeroAlbum, p.err, 0, <<>>)
        IN  Write(r, 0,
                  Reading(WriteCall("PgDelete", id, r, repoFail,
                                    [album |-> ZeroAlbum, err |-> p.err]), id, FALSE),
                  clock, p.rows, Written(id, "PgDelete", ZeroAlbum), <<>>)

\* A call of the in-memory repository: r the result, old the slice before.
MemCall(op, id, r, album) ==
    [NoCall EXCEPT !.op = op, !.arg = id, !.albums = <<album>>, !.err = r.err,
                   !.old = IF IndexOf(mem, id) = 0 THEN <<>>
                           ELSE <<mem[IndexOf(mem, id)]>>]

MemWrite(r, call, reading) ==
    /\ budget > 0
    /\ budget' = budget - 1
    /\ reading <= MaxClock
    /\ mem' = r.rows
    /\ clock' = reading
    /\ last' = call
    /\ UNCHANGED <<db, cache, tasks, cacheDown, cacheSound, badInput, inflight,
                   ref, fate, sinceWrite, marks, quiet, views>>

MemIds == { mem[i].ID : i \in 1..Len(mem) } \cup {"1"}

MemoryCreate ==
    /\ Len(mem) < MaxMem
    /\ \E album \in Requests, d1, d2, d3 \in CoarseSteps :
        LET now == Readings(d1, d2, d3)
            r == MemCreate(mem, album, now)
        IN  MemWrite(r, MemCall("MemCreate", r.album.ID, r, r.album), now[3])

MemoryUpdate ==
    \E id \in MemIds, body \in Requests, d \in CoarseSteps :
        LET album == [body EXCEPT !.ID = id]
            r == MemUpdate(mem, album, clock + d)
        IN  MemWrite(r, MemCall("MemUpdate", id, r, r.album),
                     IF r.err = "" THEN clock + d ELSE clock)

MemoryDelete ==
    \E id \in MemIds :
        LET r == MemDelete(mem, id)
        IN  MemWrite(r, MemCall("MemDelete", id, r, ZeroAlbum), clock)

\* ------------------------------------------------------------ cache keys

\* The categories the decorator builds keys of.
Categories == {"all", "id", "artist", "stock"}

\* Discriminators: none, an id, artists' names, the names of categories,
\* and strings with the separator at either end, in the middle and alone.
Discriminators ==
    {"", "1", "A", "all", "id", "stock", ":", "id:1", "artist:A", ":1", "A:", "stock:"}

\* Two calls of generateCacheKey; page keeps the arguments and the keys.
KeyPair ==
    \E c1 \in Categories, c2 \in Categories,
       d1 \in Discriminators, d2 \in Discriminators :
        /\ last' = [NoCall EXCEPT
                        !.op = "generateCacheKey",
                        !.page = <<[of |-> <<c1, d1>>, key |-> generateCacheKey(c1, d1)],
                                   [of |-> <<c2, d2>>, key |-> generateCacheKey(c2, d2)]>>]
        /\ UNCHANGED <<db, cache, tasks, clock, cacheDown, budget, ref, fate,
                       sinceWrite, marks, others>>

\* ------------------------------------------------- CatalogService (gRPC)

\* The offsets and limits a GetAlbumsRequest carries: int32 fields, which
\* the client may set to a negative number.
Offsets == {-1, 0, 1, 2, 3}

Limits == {-1, 0, 1, 2}

\* The bounds GetAlbums computes for a list of n albums.  int is wide enough
\* for the sum of an int32 and a length.
PageBounds(offset, limit, n) ==
    LET from == IF offset < 0 THEN 0 ELSE offset
        start == IF from > n THEN n ELSE from
        upto == start + limit
        end == IF limit = 0 THEN n
               ELSE IF upto > n THEN n ELSE upto
    IN  [start |-> start, end |-> end]

\* albums[start:end] of a slice of length and capacity n: a run-time panic
\* unless 0 <= start <= end <= n.
SliceExpr(albums, start, end) ==
    IF 0 <= start /\ start <= end /\ end <= Len(albums)
    THEN [albums |-> SubSeq(albums, start + 1, end), panic |-> FALSE]
    ELSE [albums |-> <<>>, panic |-> TRUE]

\* CatalogService.GetAlbums over the result r of AlbumService.GetAllAlbums:
\* the response or the error, and in page what was computed.
CatalogGetAlbums(r, offset, limit) ==
    IF r.err # ""
    THEN [r EXCEPT !.albums = <<>>, !.err = "could not get albums"] @@ [page |-> <<>>]
    ELSE LET b == PageBounds(offset, limit, Len(r.albums))
             cut == SliceExpr(r.albums, b.start, b.end)
         IN  [r EXCEPT !.albums = cut.albums,
                       !.err = IF cut.panic THEN "panic: slice bounds out of range"
                               ELSE ""]
             @@ [page |-> <<[offset |-> offset, limit |-> limit,
                             start |-> b.start, end |-> b.end,
                             length |-> Len(r.albums), panic |-> cut.panic,
                             TotalCount |-> IF cut.panic THEN 0 ELSE Len(r.albums)]>>]

GrpcGetAlbums ==
    \E offset \in Offsets, limit \in Limits, ord \in Orders(db),
       getFail \in CacheFaults, repoFail \in RepoFaults :
        LET all == CachedGetAll(ord, cache, getFail, repoFail)
            r == CatalogGetAlbums(all, offset, limit)
            p == PgGetAll(ord, repoFail)
        IN  Read(r, [ReadCall("GrpcGetAlbums", "all", "", r, repoFail, p.albums, p.err)
                        EXCEPT !.page = r.page])

\* ------------------------------------- the slice GetAll hands to its caller

\* How many callers hold a slice at a time.
MaxViews == 1

\* GetAll of the in-memory repository: under the read lock it returns
\* r.albums itself, a slice on the array the repository goes on writing.
\* albums: what the array held then; got: the elements the caller has read
\* so far; raced (history): an element was read that a write had touched
\* since the lock was released.
MemoryGetAll ==
    /\ budget > 0
    /\ Len(views) < MaxViews
    /\ budget' = budget - 1
    /\ views' = Append(views, [albums |-> mem, got |-> <<>>, raced |-> FALSE])
    /\ last' = [NoCall EXCEPT !.op = "MemGetAll", !.albums = mem, !.calls = 1]
    /\ UNCHANGED <<db, cache, tasks, clock, cacheDown, cacheSound, badInput, mem,
                   inflight, ref, fate, sinceWrite, marks, quiet>>

\* An album caught half written: the new fields, the last one still old.
Torn(old, new) == [new EXCEPT !.UpdatedAt = old.UpdatedAt]

\* What a read of element i of the slice v, made without the lock, can
\* give.  An element no write has touched gives what it held.  One that
\* Update has assigned or Delete has moved gives what it held, what it
\* holds now, or a mix of both; one past the end of the shortened slice
\* gives what it held or the zero album (slices.Delete may clear the end).
Slot(v, i) ==
    IF i > Len(mem) THEN {v.albums[i], ZeroAlbum}
    ELSE IF mem[i] = v.albums[i] THEN {mem[i]}
    ELSE {v.albums[i], mem[i], Torn(v.albums[i], mem[i])}

\* The caller (the handler's JSON encoder, the loop of the gRPC GetAlbums)
\* reads the next element of its slice; it holds no lock.
CallerReads ==
    \E n \in DOMAIN views :
        LET v == views[n]
            i == Len(v.got) + 1
        IN  /\ i <= Len(v.albums)
            /\ \E a \in Slot(v, i) :
                  views' = [views EXCEPT ![n] =
                              [v EXCEPT !.got = Append(@, a),
                                        !.raced = @ \/ i > Len(mem)
                                                    \/ mem[i] # v.albums[i]]]
            /\ last' = NoCall
            /\ UNCHANGED <<db, cache, tasks, clock, cacheDown, cacheSound, badInput,
                           budget, mem, inflight, ref, fate, sinceWrite, marks, quiet>>

\* Create while no caller holds a slice: append may move the albums to a
\* new array, and the slices followed here are on the array in use.
MemoryCreateAlone == views = <<>> /\ MemoryCreate

\* ------------------------------------------------- Updates that overlap

\* Update of the decorator in its two store calls, other requests running
\* in between: the read of the old album ...
UpdateBegin ==
    /\ budget > 0
    /\ Len(inflight) < MaxTasks
    /\ \E id \in Ids, body \in Requests :
          inflight' = Append(inflight,
                             [album |-> [body EXCEPT !.ID = id],
                              oldAlbum |-> PgGetByID(db, id, FALSE).album])
    /\ budget' = budget - 1
    /\ last' = NoCall
    /\ UNCHANGED <<db, cache, tasks, clock, cacheDown, cacheSound, badInput, mem,
                   ref, fate, sinceWrite, marks, quiet, views>>

\* ... and the store write with the start of the goroutine.
UpdateCommit ==
    \E i \in 1..Len(inflight), d \in ClockSteps, repoFail \in RepoFaults :
        LET u == inflight[i]
            r == CachedUpdateFrom(db, u.album, u.oldAlbum, clock + d, repoFail)
            p == PgUpdate(ref, u.album, clock + d, repoFail)
        IN  /\ Len(tasks) + Len(r.spawn) <= MaxTasks
            /\ clock + d <= MaxClock
            /\ db' = r.rows
            /\ ref' = p.rows
            /\ clock' = clock + d
            /\ inflight' = SubSeq(inflight, 1, i - 1)
                            \o SubSeq(inflight, i + 1, Len(inflight))
            /\ last' = Reading(WriteCall("Update", u.album.ID, r, repoFail, p),
                               u.album.ID, FALSE)
            /\ IF r.err = ""
               THEN /\ tasks' = Early(tasks) \o r.spawn
                    /\ fate' = Written(u.album.ID, "Update", r.albums[1])
                    /\ sinceWrite' = 0
                    /\ marks' = [stale |-> DOMAIN cache, late |-> {},
                                 moved |-> Moved(u.album)]
               ELSE UNCHANGED <<tasks, fate, sinceWrite, marks>>
            /\ UNCHANGED <<cache, cacheDown, cacheSound, badInput, mem, budget, quiet,
                           views>>

\* A GetByArtist whose population goroutine runs before any other request
\* or goroutine does.
GetByArtistStored ==
    \E artist \in Artists, ord \in Orders(db), repoFail \in RepoFaults :
        LET r == CachedGetByArtist(ord, cache, artist, FALSE, repoFail)
            p == PgGetByArtist(ord, artist, repoFail)
            key == generateCacheKey("artist", artist)
        IN  /\ budget > 0
            /\ budget' = budget - 1
            /\ last' = ReadCall("GetByArtist", "artist", artist, r, repoFail,
                                p.albums, p.err)
            /\ IF r.spawn = <<>>
               THEN UNCHANGED <<cache, marks>>
               ELSE LET c == r.spawn[1].calls[1]
                    IN  /\ cache' = RedisSet(cache, c.key, c.value, c.ttl, FALSE).cache
                        /\ marks' = [marks EXCEPT !.stale = @ \ {c.key},
                                                  !.late = @ \ {c.key}]
            /\ UNCHANGED <<db, tasks, clock, cacheDown, ref, fate, sinceWrite, others>>

\* The input of a service call breaks one of the rules of the service.
BadID(id) == id = ""

BadAlbum(album) == album.Title = "" \/ album.Price < 0

SvcCreateAlbum ==
    /\ Cardinality(db) < MaxAlbums
    /\ \E album \in SvcRequests, repoFail \in RepoFaults,
          d1, d2, d3 \in ClockSteps :
        LET now == <<clock + d1, clock + d1 + d2, clock + d1 + d2 + d3>>
            r == CreateAlbum(db, album, now, repoFail)
            a == r.albums[1]
            stopped == r.err # "" /\ a = album
            e == IF stopped THEN "" ELSE r.err
        IN  Write(r, 0,
                  Served(WriteCall("CreateAlbum", a.ID, r, repoFail,
                                   [album |-> a, err |-> r.err]),
                         BadAlbum(album), e, RestCreateAlbum(r.err)),
                  IF stopped THEN clock ELSE now[3], r.rows,
                  Written(a.ID, "CreateAlbum", a), <<>>)

\* The time is read only by the store's Update: a call that stops before it
\* leaves the clock as it was.
SvcUpdateAlbum ==
    \E id \in SvcIds, body \in SvcRequests, d \in ClockSteps,
       getFail \in CacheFaults, findFail \in RepoFaults,
       readFail \in RepoFaults, repoFail \in RepoFaults :
        LET album == [body EXCEPT !.ID = id]
            r == UpdateAlbum(db, cache, album, clock + d, getFail, findFail, readFail, repoFail)
            stopped == r.err # "" /\ r.albums[1] = album
            found == CachedGetByID(db, cache, id, getFail, findFail)
            e == IF BadID(id) \/ BadAlbum(album) THEN ""
                 ELSE IF found.err # "" THEN found.err
                 ELSE r.err
        IN  Write(r, Len(r.spawn) - 1,
                  Served(Reading(WriteCall("UpdateAlbum", id, r, repoFail,
                                           [album |-> r.albums[1], err |-> r.err]),
                                 id, readFail),
                         BadID(id) \/ BadAlbum(album), e, RestUpdateAlbum(r.err)),
                  IF stopped THEN clock ELSE clock + d, r.rows,
                  Written(id, "UpdateAlbum", r.albums[1]), Moved(album))

SvcDeleteAlbum ==
    \E id \in SvcIds, readFail \in RepoFaults, repoFail \in RepoFaults :
        LET r == DeleteAlbum(db, id, readFail, repoFail)
            e == IF BadID(id) THEN "" ELSE r.err
        IN  Write(r, 0,
                  Served(Reading(WriteCall("DeleteAlbum", id, r, repoFail,
                                           [album |-> ZeroAlbum, err |-> r.err]),
                                 id, readFail),
                         BadID(id), e, RestDeleteAlbum(r.err)),
                  clock, r.rows, Written(id, "DeleteAlbum", ZeroAlbum), <<>>)

\* ------------------------------------------------- goroutines and time

\* The next cache call of goroutine i.
RunTask ==
    \E i \in 1..Len(tasks), fail \in CacheFaults :
        LET t == tasks[i]
            c == Head(t.calls)
            done == IF c.op = "Set"
                    THEN RedisSet(cache, c.key, c.value, c.ttl, fail)
                    ELSE RedisDelete(cache, c.key, fail)
            rest == [t EXCEPT !.calls = Tail(t.calls)]
        IN  /\ cache' = done.cache
            /\ tasks' = IF rest.calls = <<>>
                        THEN SubSeq(tasks, 1, i - 1) \o SubSeq(tasks, i + 1, Len(tasks))
                        ELSE [tasks EXCEPT ![i] = rest]
            /\ marks' = IF done.err # "" THEN marks
                        ELSE IF c.op = "Set" /\ t.early
                        THEN [marks EXCEPT !.stale = @ \cup {c.key},
                                           !.late = @ \cup {c.key}]
                        ELSE [marks EXCEPT !.stale = @ \ {c.key},
                                           !.late = @ \ {c.key}]
            /\ last' = NoCall
            /\ UNCHANGED <<db, clock, cacheDown, budget, ref, fate, sinceWrite, others>>

\* Thirty seconds pass: every key loses that much of its expiry.
Expire ==
    /\ cache' = [k \in { k \in DOMAIN cache : cache[k].ttl > 1 } |->
                    [cache[k] EXCEPT !.ttl = @ - 1]]
    /\ sinceWrite' = Elapse(sinceWrite)
    /\ marks' = [marks EXCEPT !.stale = { k \in @ : k \in DOMAIN cache' },
                              !.late = { k \in @ : k \in DOMAIN cache' }]
    /\ last' = NoCall
    /\ UNCHANGED <<db, tasks, clock, cacheDown, budget, ref, fate,
                   cacheSound, badInput, mem, inflight, views>>

Tick == Expire /\ UNCHANGED quiet

\* The history clock of the quiet time stops counting past the longest
\* expiry, that of the by-id keys.
QuietCap == IDTTL + 1

\* Thirty seconds pass with no write since the count began; the count begins
\* when every goroutine started so far has finished.
QuietTick ==
    /\ quiet = 0 => tasks = <<>>
    /\ Expire
    /\ quiet' = IF quiet < QuietCap THEN quiet + 1 ELSE QuietCap

\* The writes, and the time that is not counted, before the quiet time.
CreateBefore == quiet = 0 /\ Create

UpdateBefore == quiet = 0 /\ Update

TickBefore == quiet = 0 /\ Tick

\* Another client of the Redis server stores, under a key of the decorator,
\* a payload the decorator's read of that key cannot parse: text that is no
\* JSON, a list under the key of an id, an album under the key of a list.
ForeignSet ==
    \E k \in ListKeys \cup { generateCacheKey("id", id) : id \in Ids },
       v \in {NotJSON, MarshalAlbum(SeedAlbum), MarshalAlbums(<<SeedAlbum>>)},
       ttl \in {StockTTL, DefaultTTL} :
        /\ ParseFails(k, v)
        /\ budget > 0
        /\ budget' = budget - 1
        /\ cache' = RedisSet(cache, k, v, ttl, FALSE).cache
        /\ last' = NoCall
        /\ UNCHANGED <<db, tasks, clock, cacheDown, ref, fate, sinceWrite, marks, others>>

\* -------------------------------------------------------- specifications

\* Every operation, on a working cache backend.
Next ==
    \/ GetAll
    \/ GetByID
    \/ GetByArtist
    \/ GetInStock
    \/ SvcGetAlbumByID
    \/ Create
    \/ Update
    \/ Delete
    \/ SvcUpdateAlbum
    \/ RunTask
    \/ Tick

Spec == Init /\ [][Next]_vars

\* The seven operations of the decorator on a cache backend that fails
\* every call.
InitCacheDown == Start(TRUE, MaxCalls)

NextCacheDown ==
    \/ GetAll
    \/ GetByID
    \/ GetByArtist
    \/ GetInStock
    \/ Create
    \/ Update
    \/ Delete
    \/ RunTask
    \/ Tick

SpecCacheDown == InitCacheDown /\ [][NextCacheDown]_vars

\* The operations on one album.
InitByID == Start(FALSE, MaxCalls)

NextByID ==
    \/ GetByID
    \/ SvcGetAlbumByID
    \/ SvcUpdateAlbum
    \/ Delete
    \/ RunTask
    \/ Tick

SpecByID == InitByID /\ [][NextByID]_vars

\* The list reads that expire soonest, and the writes.
InitLists == Start(FALSE, MaxCalls)

NextLists ==
    \/ GetByArtist
    \/ GetInStock
    \/ Create
    \/ Update
    \/ Delete
    \/ RunTask
    \/ Tick

SpecLists == InitLists /\ [][NextLists]_vars

\* The handlers of the REST service, clients sending bad input too.
InitService == StartWith(FALSE, FALSE, TRUE, MaxCallsAll)

NextService ==
    \/ SvcGetAlbumByID
    \/ SvcGetAlbumsByArtist
    \/ SvcCreateAlbum
    \/ SvcUpdateAlbum
    \/ SvcDeleteAlbum
    \/ RunTask
    \/ Tick

SpecService == InitService /\ [][NextService]_vars

\* The writes on the two stores, called directly and through the service,
\* on a cache backend that answers every call.
InitStores == StartWith(FALSE, TRUE, FALSE, MaxCallsAll)

NextStores ==
    \/ StoreCreate
    \/ StoreUpdate
    \/ StoreDelete
    \/ MemoryCreate
    \/ MemoryUpdate
    \/ MemoryDelete
    \/ SvcCreateAlbum
    \/ SvcUpdateAlbum
    \/ SvcDeleteAlbum
    \/ RunTask

SpecStores == InitStores /\ [][NextStores]_vars

\* Updates of the decorator that overlap, and by-artist reads that have
\* stored their list before the next step, on a cache backend that answers
\* every call.
InitRaces == StartWith(FALSE, TRUE, FALSE, MaxCallsRaces)

NextRaces ==
    \/ UpdateBegin
    \/ UpdateCommit
    \/ GetByArtistStored
    \/ RunTask

SpecRaces == InitRaces /\ [][NextRaces]_vars

\* Reads and writes, then reads only while the quiet time is counted.
\* The writes of the two stores, called without decorator and service.
InitWrites == StartWith(FALSE, TRUE, FALSE, MaxCalls)

NextWrites ==
    \/ StoreCreate
    \/ StoreUpdate
    \/ StoreDelete
    \/ MemoryCreate
    \/ MemoryUpdate
    \/ MemoryDelete

SpecWrites == InitWrites /\ [][NextWrites]_vars

\* The in-memory repository with callers of GetAll reading their slices
\* while other requests write.
MaxCallsShared == 4

InitShared == StartWith(FALSE, TRUE, FALSE, MaxCallsShared)

NextShared ==
    \/ MemoryCreateAlone
    \/ MemoryUpdate
    \/ MemoryDelete
    \/ MemoryGetAll
    \/ CallerReads

SpecShared == InitShared /\ [][NextShared]_vars

\* The key function on pairs of arguments.
InitKeys == Start(FALSE, MaxCalls)

NextKeys == KeyPair

SpecKeys == InitKeys /\ [][NextKeys]_vars

\* The gRPC GetAlbums over tables of every length.
InitCatalog == Start(FALSE, MaxCalls)

NextCatalog ==
    \/ GrpcGetAlbums
    \/ Create
    \/ Delete
    \/ RunTask
    \/ Tick

SpecCatalog == InitCatalog /\ [][NextCatalog]_vars

\* The list of all albums, and the writes.
InitAll == Start(FALSE, MaxCalls)

NextAll ==
    \/ GetAll
    \/ Create
    \/ Update
    \/ Delete
    \/ RunTask
    \/ Tick

SpecAll == InitAll /\ [][NextAll]_vars

\* The four reads over a cache that another client writes to.
InitForeign == Start(FALSE, MaxCalls)

NextForeign ==
    \/ GetAll
    \/ GetByID
    \/ GetByArtist
    \/ GetInStock
    \/ ForeignSet
    \/ RunTask
    \/ Tick

SpecForeign == InitForeign /\ [][NextForeign]_vars

InitQuiet == Start(FALSE, MaxCalls)

NextQuiet ==
    \/ GetByID
    \/ GetByArtist
    \/ CreateBefore
    \/ UpdateBefore
    \/ TickBefore
    \/ RunTask
    \/ QuietTick

SpecQuiet == InitQuiet /\ [][NextQuiet]_vars

\* ------------------------------------------------------------ properties

\* The call that has just returned is op on an id whose last successful
\* write was by.
After(op, by) ==
    /\ last.op = op
    /\ last.fate # <<>>
    /\ last.fate[1].by = by

\* C1 as stated: after a successful Delete(id) on the decorator, every
\* GetByID(id) returns an error and no record.
C1_AsStated ==
    After("GetByID", "Delete") => last.err # "" /\ last.albums = <<>>

\* C1: after a successful Delete(id) on the decorator, a GetByID(id) that
\* is not served from a by-id entry holding data from before the Delete
\* returns an error and no record, the error being "album not found" when
\* the store answers; one served from such an entry returns the deleted
\* record without an error.
C1_DeleteThenGetByID ==
    After("GetByID", "Delete") =>
        IF last.stale
        THEN /\ last.err = ""
             /\ Len(last.albums) = 1
             /\ last.albums[1].ID = last.arg
        ELSE /\ last.err # ""
             /\ last.albums = <<>>
             /\ ~ last.repoFail => last.err = "album not found"

\* A GetByID after the Delete that asked the cache and then the store.
C1_Witness ==
    /\ After("GetByID", "Delete")
    /\ ~ last.getErr
    /\ ~ last.hit
    /\ last.err = "album not found"

\* The fields a client sets are those of album a as the table's columns
\* keep them.
Shows(albums, a) ==
    /\ Len(albums) = 1
    /\ LET g == albums[1]
           w == PgRow(a)
       IN  /\ g.ID = w.ID
           /\ g.Title = w.Title
           /\ g.Artist = w.Artist
           /\ g.Price = w.Price
           /\ g.Year = w.Year
           /\ g.Genre = w.Genre
           /\ g.Condition = w.Condition
           /\ g.InStock = w.InStock

C3_CreateThenGetByID ==
    After("GetByID", "Create") /\ last.err = "" =>
        last.albums = <<last.fate[1].album>>

\* The call that has just returned is a successful GetByArtist of one of
\* the two artists of the last store write, an update that moved an album
\* from one to the other, and was issued more than the by-artist expiry
\* after it.
AfterMove ==
    /\ last.op = "GetByArtist"
    /\ last.err = ""
    /\ last.moved # <<>>
    /\ last.arg \in {last.moved[1], last.moved[2]}
    /\ last.sinceWrite > ArtistTTL

\* The list is what the store now answers for the artist, the moved album
\* in the list of its new artist only.
ReflectsArtist(albums, artist, moved) ==
    /\ \E ord \in Orders(db) : albums = PgGetByArtist(ord, artist, FALSE).albums
    /\ (\E i \in 1..Len(albums) : albums[i].ID = moved[3]) <=> artist = moved[2]

\* C4 as stated: more than the by-artist expiry after a successful Update
\* that moved an album from artist A to artist B, every GetByArtist(A) and
\* GetByArtist(B) returns the store's current list.
C4_AsStated ==
    AfterMove => ReflectsArtist(last.albums, last.arg, last.moved)

\* C4: more than the by-artist expiry after the last successful write, an
\* Update that moved an album from artist A to artist B, a GetByArtist(A)
\* or GetByArtist(B) returns the store's current list unless it is served
\* from an entry stored after the Update by a goroutine started before it.
C4_MovedArtist ==
    AfterMove /\ ~ last.late => ReflectsArtist(last.albums, last.arg, last.moved)

\* The list of the new artist, with the moved album, served from an entry
\* stored after the Update.
C4_Witness ==
    /\ AfterMove
    /\ last.hit
    /\ ~ last.late
    /\ last.arg = last.moved[2]
    /\ \E i \in 1..Len(last.albums) : last.albums[i].ID = last.moved[3]

\* The call that has just returned is a successful GetInStock issued more
\* than the in-stock expiry after the last successful write.
AfterStockExpiry ==
    /\ last.op = "GetInStock"
    /\ last.err = ""
    /\ last.sinceWrite > StockTTL

\* The list is one the store now answers for the albums in stock.
ReflectsStock(albums) ==
    \E ord \in Orders(db) : albums = PgGetInStock(ord, FALSE).albums

\* C5 as stated: a GetInStock issued more than the in-stock expiry after
\* the last successful write returns the store's current in-stock list,
\* however the population goroutines of earlier reads are scheduled.
C5_AsStated ==
    AfterStockExpiry => ReflectsStock(last.albums)

\* C5: a GetInStock issued more than the in-stock expiry after the last
\* successful write returns the store's current in-stock list unless it is
\* served from an entry stored after that write by a goroutine started
\* before it.
C5_StockExpiry ==
    AfterStockExpiry /\ ~ last.late => ReflectsStock(last.albums)

\* After a write that changed the in-stock list, a GetInStock served from
\* an entry stored after the write.
C5_Witness ==
    /\ AfterStockExpiry
    /\ last.hit
    /\ ~ last.late
    /\ last.sinceWrite < Cap
    /\ { r \in db : r.InStock } # {SeedAlbum}

ReadOps == {"GetAll", "GetByID", "GetByArtist", "GetInStock"}

WriteOps == {"Create", "Update", "Delete"}

\* C6: a read of the decorator whose cache Get fails returns the albums and
\* the error of the same read of the store, and is not served from the cache.
C6_CacheGetFails ==
    last.op \in ReadOps /\ last.getErr =>
        /\ last.albums = last.refAlbums
        /\ last.err = last.refErr
        /\ ~ last.hit

\* A read whose cache Get failed on a key the cache holds, answered by the
\* store.
C6_Witness ==
    /\ last.op \in ReadOps
    /\ last.getErr
    /\ last.warm
    /\ last.err = ""
    /\ last.albums # <<>>

\* The albums a cache entry spells.
Held(k) ==
    IF k \in ListKeys THEN UnmarshalAlbums(cache[k].val).albums
    ELSE <<UnmarshalAlbum(cache[k].val).album>>

\* C7 as stated: every by-id entry holds a record of the store, with the
\* field values its columns keep, and every list entry holds only records
\* whose ids are in the store.
C7_AsStated ==
    \A k \in DOMAIN cache :
        IF k \in ListKeys
        THEN \A i \in 1..Len(Held(k)) : \E r \in db : r.ID = Held(k)[i].ID
        ELSE PgRow(Held(k)[1]) \in db

\* The entry under key k is what the store now answers for k.
ViewOfStore(k) ==
    IF k = generateCacheKey("all", "")
    THEN \E ord \in Orders(db) : cache[k].val = MarshalAlbums(PgGetAll(ord, FALSE).albums)
    ELSE IF k = generateCacheKey("stock", "")
    THEN \E ord \in Orders(db) : cache[k].val = MarshalAlbums(PgGetInStock(ord, FALSE).albums)
    ELSE IF k \in ListKeys
    THEN \E ord \in Orders(db), a \in Artists :
            /\ k = generateCacheKey("artist", a)
            /\ cache[k].val = MarshalAlbums(PgGetByArtist(ord, a, FALSE).albums)
    ELSE /\ cache[k].val.shape = "object"
         /\ k = generateCacheKey("id", Held(k)[1].ID)
         /\ PgRow(Held(k)[1]) \in db

\* C7: every cache entry whose data was obtained after the last successful
\* store write is a view of the store: a by-id entry holds, under the key
\* of its id, a record that is in the store once its price and timestamps
\* are rounded as the columns round them, and a list entry is the list the
\* store now answers.
C7_SubsetView ==
    \A k \in DOMAIN cache : k \notin marks.stale => ViewOfStore(k)

\* After a write, a by-id entry and a list entry with data obtained since.
C7_Witness ==
    /\ DOMAIN fate # {}
    /\ \E k \in DOMAIN cache \ marks.stale : k \in ListKeys
    /\ \E k \in DOMAIN cache \ marks.stale : k \notin ListKeys

\* C8: a write of the decorator whose store write fails returns the
\* store's error, has made no cache call and has started no goroutine.
C8_StoreWriteFails ==
    last.op \in WriteOps /\ last.refErr # "" =>
        /\ last.err = last.refErr
        /\ last.calls = 0
        /\ last.spawned = 0

\* A failed Delete while the cache holds an entry.
C8_Witness ==
    /\ last.op = "Delete"
    /\ last.repoFail
    /\ last.err = "failed to delete album"
    /\ DOMAIN cache # {}

\* C9: on a cache backend that fails every call, a write of the decorator
\* whose store write succeeds returns no error and has started its goroutine.
C9_WriteSucceeds ==
    cacheDown /\ last.op \in WriteOps /\ last.refErr = "" =>
        /\ last.err = ""
        /\ last.spawned = 1

\* A successful write while the goroutine of an earlier write has had a
\* cache call fail and has more to make.
C9_Witness ==
    /\ cacheDown
    /\ last.op \in WriteOps
    /\ last.err = ""
    /\ \E i \in 1..Len(tasks) : tasks[i].early /\ Len(tasks[i].calls) = 1

\* C10: on a cache backend that fails every call, each of the seven
\* operations returns the albums and the error the store alone returns for
\* it, and the table is the one the store alone has after the same writes.
C10_CacheDownRefines ==
    cacheDown =>
        /\ db = ref
        /\ cache = [k \in {} |-> Empty]
        /\ last.op \in ReadOps \cup WriteOps =>
               /\ last.albums = last.refAlbums
               /\ last.err = last.refErr
               /\ ~ last.hit

\* A GetAll that lists a created album next to the seeded one, the cache
\* read having failed.
C10_Witness ==
    /\ cacheDown
    /\ last.op = "GetAll"
    /\ last.getErr
    /\ last.err = ""
    /\ Len(last.albums) = 2

\* The errors of the service's own checks.
ValidationErrors ==
    {"id cannot be empty", "title cannot be empty", "price cannot be negative",
     "artist cannot be empty"}

\* C11: a call of the service with an empty id, an empty title, a negative
\* price or an empty artist returns the error of the service's check,
\* whatever the store and the cache would answer, makes no cache call,
\* starts no goroutine, and leaves the table, the cache, the goroutines
\* and the clock as they were.
C11_ValidationFirst ==
    [][ last'.invalid =>
            /\ last'.err \in ValidationErrors
            /\ last'.calls = 0
            /\ last'.spawned = 0
            /\ db' = db
            /\ cache' = cache
            /\ tasks' = tasks
            /\ clock' = clock ]_vars

\* An UpdateAlbum with a negative price refused while the store is failing
\* and the cache holds an entry.
C11_Witness ==
    /\ last.op = "UpdateAlbum"
    /\ last.invalid
    /\ last.arg # ""
    /\ last.repoFail
    /\ last.err = "price cannot be negative"
    /\ DOMAIN cache # {}

\* The errors that say the album is not in the store, and the errors of a
\* failing store.
NotFoundErrors == {"album not found", "album with ID not found"}

StoreErrors ==
    {"failed to get album", "failed to get albums", "failed to get albums by artist",
     "failed to create album", "failed to update album", "failed to delete album"}

\* What UpdateAlbum makes of the error of its existence check.
WrappedErrors == {"album not found " \o e : e \in NotFoundErrors \cup StoreErrors}

\* The kind an error message reports; the errors carry no type, the message
\* is all a caller has.
Kind(err) ==
    IF err = "" THEN ""
    ELSE IF err \in ValidationErrors THEN "validation"
    ELSE IF err \in NotFoundErrors \cup WrappedErrors THEN "not-found"
    ELSE IF err \in StoreErrors THEN "store"
    ELSE "other"

ServiceOps ==
    {"GetAlbumByID", "GetAlbumsByArtist", "CreateAlbum", "UpdateAlbum", "DeleteAlbum"}

\* C12: when the repository returns a not-found or a store error to a
\* method of the service, the caller of the method gets an error of the
\* same kind; a store failure of UpdateAlbum's existence check reaches the
\* caller as a store failure.
C12_KindsPropagate ==
    (last.op \in ServiceOps /\ Kind(last.repoErr) \in {"not-found", "store"})
        => Kind(last.err) = Kind(last.repoErr)

\* The status the delivery layer owes to an error of the service.
StatusOf(err) ==
    IF Kind(err) = "not-found" THEN 404
    ELSE IF Kind(err) = "validation" THEN 400
    ELSE 500

\* C16: the status a REST handler answers with is the one of the kind of
\* the error the service returned: 404 for not-found, 400 for a validation
\* error, 500 for any other failure; for GetAlbumByID, CreateAlbum,
\* UpdateAlbum, DeleteAlbum and GetAlbumsByArtist.
C16_StatusByKind ==
    (last.op \in ServiceOps /\ last.err # "") => last.status = StatusOf(last.err)

\* The row of the table with this id.
RowOf(rows, id) == CHOOSE r \in rows : r.ID = id

\* One step leaves every album of the table that is still there with its id
\* and created-at.
TableKeeps ==
    /\ \A r \in db : \A q \in db' : q.ID = r.ID => q.CreatedAt = r.CreatedAt
    /\ Cardinality(db') = Cardinality(db) => { q.ID : q \in db' } = { r.ID : r \in db }
    /\ Cardinality(db') > Cardinality(db) => db \subseteq db'
    /\ Cardinality(db') < Cardinality(db) => db' \subseteq db

\* One step leaves every album of the slice that is still there with its id
\* and created-at.
SliceKeeps ==
    /\ Len(mem') = Len(mem) =>
          \A i \in 1..Len(mem) : /\ mem'[i].ID = mem[i].ID
                                 /\ mem'[i].CreatedAt = mem[i].CreatedAt
    /\ Len(mem') > Len(mem) => SubSeq(mem', 1, Len(mem)) = mem
    /\ Len(mem') < Len(mem) =>
          \E i \in 1..Len(mem) :
              mem' = SubSeq(mem, 1, i - 1) \o SubSeq(mem, i + 1, Len(mem))

\* The Update that just returned success stored the reading of the clock it
\* took as updated-at (the table keeps it in microseconds) and returned it.
UpdateRefreshes ==
    /\ last'.op \in {"PgUpdate", "UpdateAlbum"} /\ last'.err = "" =>
          /\ clock' >= clock
          /\ last'.albums[1].UpdatedAt = clock'
          /\ RowOf(db', last'.arg).UpdatedAt = PgTimestamptz(clock')
    /\ last'.op = "MemUpdate" /\ last'.err = "" =>
          /\ clock' >= clock
          /\ last'.albums[1].UpdatedAt = clock'
          /\ mem'[IndexOf(mem', last'.arg)].UpdatedAt = clock'

\* C13: over every Create, Update and Delete, on the Postgres table, on the
\* in-memory slice, and through the service and the decorator, an album
\* keeps its id and its created-at for as long as it is stored, also when
\* the album given to Update carries another created-at; and every Update
\* that succeeds sets updated-at to the time of that Update.
C13_IdentityKept == [][TableKeeps /\ SliceKeeps /\ UpdateRefreshes]_vars

\* An UpdateAlbum has just succeeded on the table and an Update on the
\* slice before it, both given an album whose created-at is not the stored
\* one.
C13_Witness ==
    /\ last.op = "UpdateAlbum"
    /\ last.err = ""
    /\ last.old # <<>>
    /\ last.old[1].CreatedAt # 0
    /\ RowOf(db, last.arg).Title # last.old[1].Title
    /\ mem[1].Title # MemSeed.Title
    /\ mem[1].CreatedAt = MemSeed.CreatedAt

CreateOps == {"Create", "PgCreate", "MemCreate", "CreateAlbum"}

\* C14: the album a successful Create returns has a non-empty id and its
\* created-at equals its updated-at.
C14_CreateStamps ==
    (last.op \in CreateOps /\ last.err = "") =>
        /\ last.albums[1].ID # ""
        /\ last.albums[1].CreatedAt = last.albums[1].UpdatedAt

\* C15: in every state no two albums of a store have the same id, in the
\* table and in the slice, also after Creates within one reading of the
\* clock.
C15_UniqueIds ==
    /\ \A r, q \in db : r.ID = q.ID => r = q
    /\ \A i, j \in 1..Len(mem) : mem[i].ID = mem[j].ID => i = j

\* The keys a goroutine still has to delete.
DeleteKeys(t) ==
    { t.calls[i].key : i \in { j \in DOMAIN t.calls : t.calls[j].op = "Delete" } }

\* The by-artist key of the album the write found in the table, when its
\* read of that album succeeded.
OldArtistKey ==
    IF last.old # <<>> /\ ~last.readFail
    THEN {generateCacheKey("artist", last.old[1].Artist)}
    ELSE {}

\* The keys the goroutine of the write that has just returned owes a Delete.
OwedKeys ==
    IF last.op \in {"Update", "UpdateAlbum"}
    THEN {generateCacheKey("id", last.arg),
          generateCacheKey("artist", last.albums[1].Artist),
          generateCacheKey("stock", "")} \cup OldArtistKey
    ELSE IF last.op \in {"Delete", "DeleteAlbum"}
    THEN {generateCacheKey("id", last.arg), generateCacheKey("stock", "")}
         \cup OldArtistKey
    ELSE {generateCacheKey("artist", last.albums[1].Artist),
          generateCacheKey("stock", "")}

\* C17: the goroutine a successful write starts deletes these keys: of
\* Update the by-id key, the by-artist key of the artist the album had (when
\* the read before the write succeeded), the by-artist key of the new artist
\* and the in-stock key; of Delete the by-id key, the by-artist key of the
\* deleted album's artist (when it was read) and the in-stock key; of Create
\* the by-artist key of the new album's artist and the in-stock key.
C17_InvalidationKeys ==
    (last.op \in WriteOps \cup {"UpdateAlbum"} /\ last.err = "") =>
        /\ last.spawned >= 1
        /\ DeleteKeys(tasks[Len(tasks)]) = OwedKeys

\* An Update that moved an album to another artist, having read the old one,
\* has just started its goroutine.
C17_Witness ==
    /\ last.op = "Update"
    /\ last.err = ""
    /\ ~last.readFail
    /\ last.old # <<>>
    /\ last.old[1].Artist # last.albums[1].Artist
    /\ Cardinality(DeleteKeys(tasks[Len(tasks)])) = 4

\* A goroutine still owes a Delete of this key.
DeletePending(key) == \E i \in 1..Len(tasks) : key \in DeleteKeys(tasks[i])

\* The album id was deleted, the invalidation of its by-id key is over, and
\* the key holds what the goroutine of a GetByID that read the album before
\* the Delete stored after it.
LeftBehind(id) ==
    /\ fate[id].by = "Delete"
    /\ ~ \E r \in db : r.ID = id
    /\ generateCacheKey("id", id) \in DOMAIN cache
    /\ generateCacheKey("id", id) \in marks.late
    /\ ~ DeletePending(generateCacheKey("id", id))

\* C19: the population goroutine of a GetByID that read an album before a
\* Delete of it committed can store the album under its by-id key after the
\* Delete's invalidation; from then on no step removes the entry but the
\* passing of its expiry, at most IDTTL (5 minutes), and every GetByID of
\* the id whose cache read works returns the deleted album from it.
C19_LeftBehindStays ==
    [][ \A id \in DOMAIN fate :
          LeftBehind(id) =>
            LET key == generateCacheKey("id", id)
            IN  /\ cache[key].ttl <= IDTTL
                /\ key \notin DOMAIN cache' =>
                      cache[key].ttl = 1 /\ tasks' = tasks /\ budget' = budget
                /\ key \in DOMAIN cache' =>
                      UnmarshalAlbum(cache'[key].val).album.ID = id
                /\ (last'.op = "GetByID" /\ last'.arg = id /\ ~ last'.getErr) =>
                      /\ last'.hit
                      /\ last'.err = ""
                      /\ last'.albums = <<UnmarshalAlbum(cache[key].val).album>>
      ]_vars

\* A GetByID has just returned the deleted album from the entry stored after
\* the invalidation, every goroutine having finished.
C19_Witness ==
    /\ After("GetByID", "Delete")
    /\ LeftBehind(last.arg)
    /\ tasks = <<>>
    /\ last.hit
    /\ last.late
    /\ last.albums[1].ID = last.arg

\* How many goroutines owe a cache Delete.
Invalidations(ts) == Cardinality({ i \in 1..Len(ts) : DeleteKeys(ts[i]) # {} })

\* The write that has just returned is in the table.
Committed ==
    IF last.op \in {"Create", "CreateAlbum"}
    THEN PgRow(last.albums[1]) \in db
    ELSE IF last.op \in {"Update", "UpdateAlbum"}
    THEN /\ \E r \in db : r.ID = last.arg
         /\ RowOf(db, last.arg) =
               PgRow([last.albums[1] EXCEPT !.CreatedAt = last.old[1].CreatedAt])
    ELSE /\ last.op = "Delete"
         /\ last.old # <<>>
         /\ ~ \E r \in db : r.ID = last.arg

\* C20: a goroutine that invalidates is started only by a Create, Update or
\* Delete whose store write succeeded, in the step that leaves the write in
\* the table; a write that fails starts none, and no call deletes a key of
\* the cache itself.
C20_InvalidateAfterCommit ==
    [][ /\ Invalidations(tasks') > Invalidations(tasks) =>
              /\ last'.op \in WriteOps \cup {"UpdateAlbum"}
              /\ last'.err = ""
              /\ Committed'
              /\ Invalidations(tasks') = Invalidations(tasks) + 1
        /\ budget' # budget => cache' = cache
      ]_vars

\* A Create has just put its row in the table and started the one goroutine
\* that invalidates.
C20_Witness ==
    /\ last.op = "Create"
    /\ last.err = ""
    /\ Committed
    /\ Invalidations(tasks) = 1
    /\ DeleteKeys(tasks[Len(tasks)]) # {}

\* The albums the cache lists for this artist.
Listed(artist) ==
    UnmarshalAlbums(cache[generateCacheKey("artist", artist)].val).albums

\* The by-artist entry of this artist was stored before the last store write.
FromBefore(artist) ==
    /\ generateCacheKey("artist", artist) \in DOMAIN cache
    /\ generateCacheKey("artist", artist) \in marks.stale \ marks.late

\* C18: when Updates of one album overlap, each invalidates the by-artist
\* key of the artist the row had right before its store write; so once all
\* of them have returned and their goroutines have finished, no by-artist
\* entry stored before the last store write lists an album under an artist
\* its row no longer has.
C18_OverlappingUpdates ==
    (tasks = <<>> /\ inflight = <<>>) =>
        \A artist \in Artists :
            FromBefore(artist) =>
                \A i \in 1..Len(Listed(artist)) :
                    \A r \in db : r.ID = Listed(artist)[i].ID => r.Artist = artist

\* The read that has just returned gave what the store now holds: the row
\* of the id, the list of the artist, or the store's error.
ShowsStore ==
    IF last.err # "" THEN ~ last.hit /\ last.err = last.refErr
    ELSE IF last.op = "GetByID"
    THEN last.albums = PgGetByID(db, last.arg, FALSE).album
    ELSE \E ord \in Orders(db) :
            last.albums = PgGetByArtist(ord, last.arg, FALSE).albums

\* The entry under key k is exactly what the store now answers for k.
ExactView(k) ==
    /\ ViewOfStore(k)
    /\ k \notin ListKeys => Held(k)[1] \in db

ExpiryOf(k) ==
    IF k = generateCacheKey("all", "") THEN AllTTL
    ELSE IF k = generateCacheKey("stock", "") THEN StockTTL
    ELSE IF \E a \in Artists : k = generateCacheKey("artist", a) THEN ArtistTTL
    ELSE IDTTL

\* The Set calls the goroutines have still to make.
PendingSets ==
    UNION { { tasks[i].calls[j] : j \in { n \in DOMAIN tasks[i].calls :
                                            tasks[i].calls[n].op = "Set" } } :
            i \in DOMAIN tasks }

\* C22: every Set a goroutine has to make names the expiry of its key's
\* category (1 minute for the list of all, 5 minutes for an id, 2 minutes
\* for an artist, 30 seconds for the stock list), never none, and every
\* entry in the cache has at most that much time left.
C22_CategoryExpiry ==
    /\ \A c \in PendingSets : c.ttl # 0 /\ c.ttl = ExpiryOf(c.key)
    /\ \A k \in DOMAIN cache : cache[k].ttl \in 1..ExpiryOf(k)

\* Create's goroutine has stored the new album for 5 minutes and a GetAll's
\* goroutine has stored the list for 1 minute.
C22_Witness ==
    /\ \E id \in DOMAIN fate :
          /\ fate[id].by = "Create"
          /\ generateCacheKey("id", id) \in DOMAIN cache
          /\ cache[generateCacheKey("id", id)].ttl = IDTTL
    /\ generateCacheKey("all", "") \in DOMAIN cache
    /\ cache[generateCacheKey("all", "")].ttl = AllTTL

\* The key a read of the decorator looks up.
KeyOfRead(call) ==
    IF call.op = "GetAll" THEN generateCacheKey("all", "")
    ELSE IF call.op = "GetInStock" THEN generateCacheKey("stock", "")
    ELSE IF call.op = "GetByID" THEN generateCacheKey("id", call.arg)
    ELSE generateCacheKey("artist", call.arg)

\* The albums the read returned are what the same read of the store gives.
StoreGives(call) ==
    IF call.op = "GetByID" THEN call.albums = PgGetByID(db, call.arg, FALSE).album
    ELSE \E ord \in Orders(db) :
            call.albums =
                IF call.op = "GetAll" THEN PgGetAll(ord, FALSE).albums
                ELSE IF call.op = "GetInStock" THEN PgGetInStock(ord, FALSE).albums
                ELSE PgGetByArtist(ord, call.arg, FALSE).albums

\* The goroutine that stores under key k the albums a read returned.
Population(k, albums) ==
    Goroutine(<<SetCall(k, IF k \in ListKeys THEN MarshalAlbums(albums)
                           ELSE MarshalAlbum(albums[1]),
                        ExpiryOf(k))>>)

\* The read that has just returned found, under its key, a payload it could
\* not parse.
ReadUnparsable ==
    /\ last'.op \in ReadOps
    /\ ~ last'.getErr
    /\ KeyOfRead(last') \in DOMAIN cache
    /\ ParseFails(KeyOfRead(last'), cache[KeyOfRead(last')].val)

\* C23: a read of the decorator whose cache Get returns a payload that does
\* not parse into the type the read expects is not a hit and returns what
\* the store returns: the store's albums with no error and one goroutine
\* started that Sets the key to these albums, or the store's error with no
\* goroutine; the error of the parse is never returned.  A goroutine's call
\* that changes such an entry leaves a payload that parses.
C23_UnparsableIsMiss ==
    [][/\ ReadUnparsable =>
            /\ ~ last'.hit
            /\ last'.err = last'.refErr
            /\ IF last'.err = ""
               THEN /\ StoreGives(last')
                    /\ tasks' = Append(tasks, Population(KeyOfRead(last'), last'.albums))
               ELSE /\ last'.albums = <<>>
                    /\ tasks' = tasks
       /\ \A k \in DOMAIN cache \cap DOMAIN cache' :
            (ParseFails(k, cache[k].val) /\ Len(tasks') < Len(tasks)
             /\ cache'[k] # cache[k]) =>
                /\ ~ ParseFails(k, cache'[k].val)
                /\ cache'[k].ttl = ExpiryOf(k)]_vars

\* A GetByID has found text that is no JSON under its key, has returned the
\* row of the store, and its goroutine has still to store the row.
C23_Witness ==
    /\ last.op = "GetByID"
    /\ last.warm /\ ~ last.hit /\ ~ last.getErr
    /\ last.err = ""
    /\ last.albums = <<SeedAlbum>>
    /\ cache[KeyOfRead(last)].val = NotJSON
    /\ tasks = <<Population(KeyOfRead(last), last.albums)>>

\* The error of the store read a read of the decorator makes.
StoreErrOf(call) ==
    IF call.op = "GetByID" THEN PgGetByID(db, call.arg, call.repoFail).err
    ELSE call.refErr

\* The read that has just returned was not served from the cache and its
\* store read failed.
ReadStoreFails ==
    /\ last'.op \in ReadOps
    /\ ~ last'.hit
    /\ StoreErrOf(last') # ""

\* C24: a read of the decorator that is not served from the cache and whose
\* store read fails (for GetByID also because the store has no row of the
\* id) returns the store's error and no album, starts no goroutine and
\* leaves the cache as it was.
C24_StoreErrorReturned ==
    [][ReadStoreFails =>
            /\ last'.err = StoreErrOf(last')
            /\ last'.albums = <<>>
            /\ last'.spawned = 0
            /\ tasks' = tasks
            /\ cache' = cache]_vars

\* A GetByID of a deleted id has returned not-found, and neither the cache
\* nor a goroutine holds anything for the id.
C24_Witness ==
    /\ last.op = "GetByID"
    /\ last.err = "album not found"
    /\ last.fate # <<>>
    /\ ~ last.hit
    /\ generateCacheKey("id", last.arg) \notin DOMAIN cache
    /\ tasks = <<>>

\* The read that has just returned was not served from the cache and its
\* store read succeeded.
ReadStoreAnswers ==
    /\ last'.op \in ReadOps
    /\ ~ last'.hit
    /\ StoreErrOf(last') = ""

\* C25: a read of the decorator that is not served from the cache and whose
\* store read succeeds returns the store's albums and no error at a moment
\* when its Set has not been made: the Set is left to a goroutine of its
\* own, which may run later, fail or never run, and the cache is as it was
\* when the read returns.
C25_ReturnsBeforeSet ==
    [][ReadStoreAnswers =>
            /\ last'.err = ""
            /\ StoreGives(last')
            /\ cache' = cache
            /\ last'.spawned = 1
            /\ tasks' = Append(tasks, Population(KeyOfRead(last'), last'.albums))]_vars

\* A GetInStock has returned the store's list after a failed cache Get; its
\* Set is still to be made.
C25_Witness ==
    /\ last.op = "GetInStock"
    /\ ~ last.hit
    /\ last.getErr
    /\ last.err = ""
    /\ last.albums # <<>>
    /\ tasks = <<Population(generateCacheKey("stock", ""), last.albums)>>

\* The cache calls of the goroutine of an Update or a Delete whose read of
\* the old album failed.
CallsUnread ==
    IF last.op = "Update"
    THEN << invalidateCache("id", last.arg),
            invalidateCache("artist", last.albums[1].Artist),
            invalidateCache("stock", "") >>
    ELSE << invalidateCache("id", last.arg), invalidateCache("stock", "") >>

\* C26: an Update or a Delete of the decorator whose store write succeeds
\* returns no error and starts one goroutine whatever its read of the old
\* album gave; when that read failed the goroutine deletes the by-id key,
\* for Update the by-artist key of the new artist, and the in-stock key, and
\* makes no other cache call.
C26_UnreadStillInvalidates ==
    (last.op \in {"Update", "Delete"} /\ ~ last.repoFail /\ last.old # <<>>) =>
        /\ last.err = ""
        /\ last.spawned = 1
        /\ last.readFail => tasks[Len(tasks)].calls = CallsUnread

\* A Delete that could not read the album deleted the row; its goroutine has
\* the by-id and the in-stock key to delete, and the album had an artist
\* whose key it does not delete.
C26_Witness ==
    /\ last.op = "Delete"
    /\ last.readFail
    /\ last.err = ""
    /\ last.old # <<>>
    /\ tasks # <<>>
    /\ generateCacheKey("artist", last.old[1].Artist) \notin DeleteKeys(tasks[Len(tasks)])
    /\ Cardinality(DeleteKeys(tasks[Len(tasks)])) = 2

\* C27 as stated: every cache call a goroutine has to make is made under
\* the timeout of 2 seconds, so that with a cache backend that never
\* answers every goroutine comes to its end.
C27_EveryCallTimed ==
    \A i \in DOMAIN tasks : \A j \in DOMAIN tasks[i].calls : Timed(tasks[i].calls[j])

\* The key of the list of all albums.
AllKey == generateCacheKey("all", "")

\* The goroutines the step started.
Started == SubSeq(tasks', Len(tasks) + 1, Len(tasks'))

\* C28: a Create, an Update or a Delete of the decorator leaves the entry of
\* the list of all albums as it is and starts no goroutine with a call on
\* its key; the entry goes away only when its expiry runs out and is stored
\* only by the Set of a GetAll's goroutine, for 1 minute; and a GetAll that
\* finds the entry returns the list it holds, so that after a write it
\* returns the list from before the write for as long as the entry lives.
C28_WritesLeaveAllList ==
    [][/\ last'.op \in WriteOps =>
            /\ cache' = cache
            /\ \A i \in DOMAIN Started : \A j \in DOMAIN Started[i].calls :
                  Started[i].calls[j].key # AllKey
       /\ (AllKey \in DOMAIN cache /\ AllKey \notin DOMAIN cache') =>
            /\ cache[AllKey].ttl = 1
            /\ tasks' = tasks
            /\ last'.op = ""
       /\ (AllKey \in DOMAIN cache'
           /\ (AllKey \notin DOMAIN cache \/ cache'[AllKey].val # cache[AllKey].val
               \/ cache'[AllKey].ttl > cache[AllKey].ttl)) =>
            /\ \E i \in DOMAIN tasks :
                  tasks[i].calls = <<SetCall(AllKey, cache'[AllKey].val, AllTTL)>>
            /\ Len(tasks') = Len(tasks) - 1
            /\ cache'[AllKey].ttl = AllTTL
       /\ (last'.op = "GetAll" /\ last'.hit) =>
            /\ last'.albums = UnmarshalAlbums(cache[AllKey].val).albums
            /\ cache' = cache
            /\ tasks' = tasks]_vars

\* A GetAll after a Create is served the list stored before the Create,
\* without the new album.
C28_Witness ==
    /\ last.op = "GetAll"
    /\ last.hit
    /\ last.stale /\ ~ last.late
    /\ last.sinceWrite < AllTTL
    /\ \E id \in DOMAIN fate :
          /\ fate[id].by = "Create"
          /\ \E r \in db : r.ID = id
          /\ \A i \in DOMAIN last.albums : last.albums[i].ID # id
    /\ tasks = <<>>

\* The read that has just returned found, under its key, a payload that
\* parses.
ReadParsable ==
    /\ last'.op \in ReadOps
    /\ ~ last'.getErr
    /\ KeyOfRead(last') \in DOMAIN cache
    /\ ~ ParseFails(KeyOfRead(last'), cache[KeyOfRead(last')].val)

\* C29: a read of the decorator whose cache Get returns a payload that
\* parses returns the albums of the payload and no error, also when a call
\* of the store would fail, starts no goroutine, and leaves the table and
\* every cache entry, payload and expiry, as they were.
C29_HitTouchesNothing ==
    [][ReadParsable =>
            /\ last'.hit
            /\ last'.err = ""
            /\ last'.albums = Held(KeyOfRead(last'))
            /\ last'.spawned = 0
            /\ tasks' = tasks
            /\ cache' = cache
            /\ db' = db]_vars

\* A GetByArtist was served the list of its key while the store was failing,
\* and the entry has the expiry it had.
C29_Witness ==
    /\ last.op = "GetByArtist"
    /\ last.hit
    /\ last.repoFail
    /\ last.err = ""
    /\ last.albums # <<>>
    /\ cache[KeyOfRead(last)].ttl < ArtistTTL
    /\ tasks = <<>>

\* The slice without its i-th album.
Without(albums, i) == SubSeq(albums, 1, i - 1) \o SubSeq(albums, i + 1, Len(albums))

\* The table has a row of the id.
HasRow(id) == \E r \in db : r.ID = id

\* C30: Update and Delete of a store, given an id no stored album has,
\* return the not-found error and leave the table, or the slice, as it was;
\* Delete of an id a stored album has returns no error and removes one
\* album, one with that id, leaving every other album as it was and, in the
\* slice, in the order it was.
C30_StoreWritesFrame ==
    [][/\ (last'.op \in {"MemUpdate", "MemDelete"} /\ IndexOf(mem, last'.arg) = 0) =>
            /\ last'.err = "album with ID not found"
            /\ mem' = mem
       /\ (last'.op \in {"PgUpdate", "PgDelete"} /\ ~ last'.repoFail
           /\ ~ HasRow(last'.arg)) =>
            /\ last'.err = "album with ID not found"
            /\ db' = db
       /\ (last'.op = "MemDelete" /\ IndexOf(mem, last'.arg) # 0) =>
            /\ last'.err = ""
            /\ \E i \in DOMAIN mem : mem[i].ID = last'.arg /\ mem' = Without(mem, i)
       /\ (last'.op = "PgDelete" /\ ~ last'.repoFail /\ HasRow(last'.arg)) =>
            /\ last'.err = ""
            /\ \E r \in db : r.ID = last'.arg /\ db' = db \ {r}
            /\ Cardinality(db') = Cardinality(db) - 1]_vars

\* A Delete of the in-memory store took the second of three albums away;
\* the seeded album and the album created last are left, in that order.
C30_Witness ==
    /\ last.op = "MemDelete"
    /\ last.err = ""
    /\ Len(mem) = 2
    /\ mem[1] = MemSeed
    /\ last.old # <<>>
    /\ last.old[1].CreatedAt > mem[1].CreatedAt
    /\ last.old[1].CreatedAt < mem[2].CreatedAt

\* C31 as stated: every read of an element of the albums slice is ordered
\* by the lock with every write of it, also the reads a caller of GetAll
\* makes on the slice it was returned: no caller reads an element that
\* Update or Delete has written since GetAll released the lock.
C31_ReadsUnderLock ==
    \A n \in DOMAIN views : ~ views[n].raced

\* C32 as stated: for every offset and limit of a request, negative ones
\* included, and every list, GetAlbums computes 0 <= start <= end <= length
\* and slices without a panic; the page has at most limit albums when limit
\* is positive and every album from start on when limit is 0; TotalCount is
\* the length of the whole list.
C32_PageInRange ==
    (last.op = "GrpcGetAlbums" /\ last.page # <<>>) =>
        LET p == last.page[1]
        IN  /\ 0 <= p.start /\ p.start <= p.end /\ p.end <= p.length
            /\ ~ p.panic
            /\ p.limit > 0 => Len(last.albums) <= p.limit
            /\ p.limit = 0 => Len(last.albums) = p.length - p.start
            /\ p.TotalCount = p.length

\* C33: two calls of generateCacheKey return the same key only when they
\* were given the same category and the same discriminator, also when a
\* discriminator holds the separator or is the name of a category.
C33_KeysInjective ==
    last.op = "generateCacheKey" =>
        (last.page[1].key = last.page[2].key => last.page[1].of = last.page[2].of)

\* The key of the id "stock:" and the key of the stock list were built, and
\* they differ.
C33_Witness ==
    /\ last.op = "generateCacheKey"
    /\ last.page[1].of = <<"id", "stock:">>
    /\ last.page[2].of = <<"stock", "">>
    /\ last.page[1].key = "album:id:stock:"
    /\ last.page[2].key = "album:stock:"

====
